---------------------------- MODULE Spec2Model ----------------------------
(***************************************************************************)
(* State-machine model of the Yt_studytool frontend (React components and  *)
(* the zustand store) and of the study-material acquisition pipeline.      *)
(*                                                                         *)
(* Independent subsystems share this module; each has its own next-state   *)
(* relation and specification, and leaves the variables of the other       *)
(* subsystems unchanged:                                                   *)
(*   QuizSpec           the quiz slice of the store (useVideoStore.ts)     *)
(*   QuizComponentSpec  the Quiz component and the Syllabus quiz button    *)
(*   StudySpec          the Study component: selection and generation      *)
(*   StudyQuizSpec      the Study component: selection, quiz generation    *)
(*                      and the quiz itself                                *)
(*   OfflineSpec        the OfflineManager component, offline storage      *)
(*   PipelineSpec       the fallback selector, the parallel dispatcher     *)
(*   TranscriptionSpec  the TranscriptionModal and the transcription slice *)
(*   ThemeSpec          the ThemeProvider and localStorage                 *)
(*   VideoListSpec      the video list slice: filter, sort, pagination     *)
(*   FairStudyFlowSpec  the Study component without its Reset button       *)
(*   SearchSpec         the SearchBar component and fetchVideos            *)
(*   CardsSpec          the video cards, each with its TranscriptionModal  *)
(*   LearningSpec       the LearningMode component and the flashcard slice *)
(* JavaScript's undefined / null are the strings "undefined" / "null";     *)
(* JavaScript numbers that are quotients are kept as exact fractions.      *)
(***************************************************************************)
EXTENDS Integers, Sequences, FiniteSets, TLC

VARIABLES
    quizState,      \* useVideoStore: the quizState slice
    quizPending,    \* generate_quiz requests awaiting their response
    quizLastOp,     \* history: the last quiz action of the store that ran
    study,          \* Study component: its useState fields
    studyPending,   \* Study component: the requests awaiting their response
    studyTrace,     \* history: the function of Study that ran in the last
                    \* step, the toast it showed and the requests it sent
    offlineStore,   \* the offline quiz storage of the backend: key -> questions
    offline,        \* OfflineManager component: its useState fields
    offlinePending, \* OfflineManager: loadOfflineContent calls awaiting
    offlineTrace,   \* history: the last step of OfflineManager, its toast,
                    \* the quiz it was about and the questions it loaded
    pipe,           \* fallback selector: the request being served
    workers,        \* parallel dispatcher: the three category workers
    merged,         \* parallel dispatcher: the merged result of tier 1
    pipeLog,        \* the warning logged by the last step ("" when none)
    transcriptionState, \* useVideoStore: the transcriptionState slice
    modal,          \* TranscriptionModal: its props and the dependencies its
                    \* effect last ran with
    transPending,   \* transcribe requests awaiting their response
    sumPending,     \* summarize requests awaiting their response
    transTrace,     \* history: the last step of the transcription modal
    themeStore,     \* localStorage: the value under 'theme' (Null: none)
    provider,       \* ThemeProvider: mounted, its useState fields, the theme
                    \* its effect last ran with
    page,           \* the document: prefers-color-scheme and the 'dark' class
    themeTrace,     \* history: the last step of the theme, what was stored
                    \* before it and the theme last given to setTheme
    videoList,      \* useVideoStore: videos, filteredVideos, paginatedVideos,
                    \* error, loading and filterState
    listPending,    \* get_videos requests awaiting their response
    listLastOp,     \* history: the last action of the video list that ran
    quizView,       \* what the Quiz and Syllabus components read besides
                    \* quizState: the syllabus topics, the active tab
    quizAwait,      \* the handleGenerateQuiz calls awaiting generateQuiz
    quizUi,         \* history: the handler of the last step, its toast, the
                    \* tab before it and the score it announced
    search,         \* useVideoStore: keyword, loading, videos, totalCount
                    \* and error, as the searches set them; inputValue of
                    \* the SearchBar component
    searchCalls,    \* the fetchVideos calls awaiting their response, in the
                    \* order they were issued
    searchLog,      \* history: the outcome of the search issued last,
                    \* once it has completed
    cardModal,      \* the video whose card has its TranscriptionModal open
                    \* ("" when every modal is closed)
    cardState,      \* useVideoStore: the transcriptionState slice, shared by
                    \* the modals of all video cards
    cardCalls,      \* the transcribe and summarize requests in flight, each
                    \* the video it is about
    cardLog,        \* history: clearTranscription ran and no transcribeVideo
                    \* was started since
    learningModeState, \* useVideoStore: the learningModeState slice
    learnCalls,     \* the learning_mode requests awaiting their response,
                    \* each the video it is about
    learnTimers,    \* the delayed advances rateCard has scheduled, in the
                    \* order they fire: the index each will set, and
                    \* (history) whether the deck was replaced since
    learnLog        \* history: the delayed advance that fired in the last
                    \* step (NoTimer when the step was something else)

quizVars == <<quizState, quizPending, quizLastOp>>

studyVars == <<study, studyPending, studyTrace>>

offlineVars == <<offlineStore, offline, offlinePending, offlineTrace>>

pipeVars == <<pipe, workers, merged, pipeLog>>

transVars == <<transcriptionState, modal, transPending, sumPending, transTrace>>

themeVars == <<themeStore, provider, page, themeTrace>>

\* The variables of the subsystems other than the first four.
listVars == <<videoList, listPending, listLastOp>>

quizUiVars == <<quizView, quizAwait, quizUi>>

searchVars == <<search, searchCalls, searchLog>>

\* The variables of the subsystems modelled last.
cardVars == <<cardModal, cardState, cardCalls, cardLog>>

learnVars == <<learningModeState, learnCalls, learnTimers, learnLog>>

lateVars == <<searchVars, cardVars, learnVars>>

viewVars == <<transVars, themeVars, listVars, quizUiVars, lateVars>>

\* The four subsystems modelled first.
coreVars == <<quizVars, studyVars, offlineVars, pipeVars>>

vars == <<quizState, quizPending, quizLastOp, study, studyPending, studyTrace,
          offlineStore, offline, offlinePending, offlineTrace,
          pipe, workers, merged, pipeLog,
          transcriptionState, modal, transPending, sumPending, transTrace,
          themeStore, provider, page, themeTrace,
          videoList, listPending, listLastOp,
          quizView, quizAwait, quizUi,
          search, searchCalls, searchLog,
          cardModal, cardState, cardCalls, cardLog,
          learningModeState, learnCalls, learnTimers, learnLog>>

nonTransVars == <<coreVars, themeVars, listVars, quizUiVars, lateVars>>

nonThemeVars == <<coreVars, transVars, listVars, quizUiVars, lateVars>>

nonListVars == <<coreVars, transVars, themeVars, quizUiVars, lateVars>>

\* What the handlers of the Quiz and Syllabus components leave alone.
nonQuizVars ==
    <<studyVars, offlineVars, pipeVars, transVars, themeVars, listVars, lateVars>>

\* The variables of the subsystems modelled before the last ones.
earlyVars == <<coreVars, transVars, themeVars, listVars, quizUiVars>>

nonSearchVars == <<earlyVars, cardVars, learnVars>>

nonCardVars == <<earlyVars, searchVars, learnVars>>

nonLearnVars == <<earlyVars, searchVars, cardVars>>

(***************************************************************************)
(* Bounds of the model.                                                    *)
(***************************************************************************)
MaxQuestions == 2
MaxPending == 1
MaxStored == 2
MaxUnits == 1
MaxVideos == 3
\* filterState.itemsPerPage, 12 in the store, scaled down.
ItemsPerPage == 2
\* fetchVideos calls in flight at a time.
MaxSearches == 2
\* transcribe requests in flight at a time.
MaxTranscribes == 2
\* flashcards of a deck.
MaxCards == 2
\* delayed advances scheduled and not yet fired.
MaxTimers == 2
\* learning_mode requests in flight at a time.
MaxGenerations == 1

(***************************************************************************)
(* Values.                                                                 *)
(***************************************************************************)
Undefined == "undefined"
Null == "null"

\* JavaScript truthiness of a string-or-undefined value: undefined and the
\* empty string are falsy.
Truthy(v) == v # Undefined /\ v # Null /\ v # ""

\* `a || b` on such values.
OrElse(a, b) == IF Truthy(a) THEN a ELSE b

RECURSIVE GCD(_, _)
GCD(a, b) == IF b = 0 THEN a ELSE GCD(b, a % b)

\* The exact value of the JavaScript number n / d (d > 0), in lowest terms.
Frac(n, d) == LET g == GCD(n, d) IN [num |-> n \div g, den |-> d \div g]

Zero == [num |-> 0, den |-> 1]

\* (a / b) * 100 for naturals a, b with b > 0.
Percent(a, b) == Frac(a * 100, b)

(***************************************************************************)
(* Quiz questions (types/index.ts QuizQuestion).  The fields question,     *)
(* options, explanation and topic are carried along unchanged everywhere;  *)
(* `question` stands for them.  difficulty and type are optional.          *)
(***************************************************************************)
Answers == {"", "A", "B"}

\* A question's own answer is one of its options, never the empty string.
CorrectAnswers == Answers \ {""}

QuizQuestion ==
    [question : {"q1"}, answer : CorrectAnswers,
     difficulty : {Undefined, "", "easy", "medium"},
     type : {Undefined, "", "mcq", "true_false"}]

\* The questions the /generate_quiz endpoint answers with in this model.
GeneratedQuestion ==
    {q \in QuizQuestion : q.difficulty = "medium" /\ q.type = "mcq"}

SeqsUpTo(S, n) == UNION {[1..k -> S] : k \in 0..n}

\* Indices of the userAnswers object: question indices, zero-based.
AnswerIndex == 0..(MaxQuestions - 1)

AnswerMap == UNION {[D -> Answers] : D \in SUBSET AnswerIndex}

\* userAnswers[index] as JavaScript reads it.
Lookup(m, i) == IF i \in DOMAIN m THEN m[i] ELSE Undefined

\* {...m, [i]: v}
Put(m, i, v) == [k \in (DOMAIN m) \cup {i} |-> IF k = i THEN v ELSE m[k]]

EmptyMap == [k \in {} |-> ""]

initialQuizState ==
    [questions |-> <<>>, currentQuestionIndex |-> 0, userAnswers |-> EmptyMap,
     isGenerating |-> FALSE, isCompleted |-> FALSE, score |-> Zero,
     error |-> Null, totalQuestions |-> 0, source |-> "api"]

(***************************************************************************)
(* completeQuiz: the forEach loop counting the correct answers.            *)
(***************************************************************************)
RECURSIVE CountCorrect(_, _, _)
CountCorrect(questions, userAnswers, n) ==
    IF n = 0 THEN 0
    ELSE LET userAnswer == Lookup(userAnswers, n - 1)
             hit == Truthy(userAnswer) /\ userAnswer = questions[n].answer
         IN  CountCorrect(questions, userAnswers, n - 1) + (IF hit THEN 1 ELSE 0)

\* Mutant: the percentage is taken over the answered questions only.
QuizScoreOfAnswered(qs) ==
    LET answered == Cardinality({i \in DOMAIN qs.userAnswers : i < Len(qs.questions)})
        correctAnswers == CountCorrect(qs.questions, qs.userAnswers, Len(qs.questions))
    IN  IF answered > 0 THEN Percent(correctAnswers, answered) ELSE Zero

\* Mutant: the new percentage is added to the score already stored.
AccumulatedQuizScore(qs) ==
    LET n == Len(qs.questions)
        c == CountCorrect(qs.questions, qs.userAnswers, n)
    IN  IF n > 0 THEN Frac(qs.score.num * n + c * 100 * qs.score.den, n * qs.score.den)
        ELSE qs.score

QuizScore(qs) ==
    LET totalQuestions == Len(qs.questions)
        correctAnswers == CountCorrect(qs.questions, qs.userAnswers, totalQuestions)
    IN  IF totalQuestions > 0 THEN Percent(correctAnswers, totalQuestions) ELSE Zero

(***************************************************************************)
(* Actions of the quiz slice of the store.                                 *)
(***************************************************************************)
\* The slice as each action of the store leaves it.
GeneratingQuiz(qs) == [qs EXCEPT !.isGenerating = TRUE, !.error = Null]

GeneratedQuiz(questions, src) ==
    [questions |-> questions, currentQuestionIndex |-> 0,
     userAnswers |-> EmptyMap, isGenerating |-> FALSE,
     isCompleted |-> FALSE, score |-> Zero, error |-> Null,
     totalQuestions |-> Len(questions), source |-> OrElse(src, "api")]

GenerateFailedQuiz(qs) ==
    [qs EXCEPT !.isGenerating = FALSE, !.error = "Failed to generate quiz"]

AnsweredQuiz(qs, questionIndex, answer) ==
    [qs EXCEPT !.userAnswers = Put(@, questionIndex, answer)]

AdvancedQuiz(qs) ==
    IF qs.currentQuestionIndex < Len(qs.questions) - 1
    THEN [qs EXCEPT !.currentQuestionIndex = @ + 1]
    ELSE qs

RetreatedQuiz(qs) ==
    IF qs.currentQuestionIndex > 0
    THEN [qs EXCEPT !.currentQuestionIndex = @ - 1]
    ELSE qs

CompletedQuiz(qs) == [qs EXCEPT !.isCompleted = TRUE, !.score = QuizScore(qs)]

\* resetQuiz leaves source (and the other optional fields) out of the slice.
ResetQuizState == [initialQuizState EXCEPT !.source = Undefined]

\* The sources a /generate_quiz response names.
ResponseSources == {Undefined, "offline"}

\* generateQuiz up to its await: isGenerating is set, the request is sent.
QuizGenerateStart ==
    /\ quizPending < MaxPending
    /\ quizState' = GeneratingQuiz(quizState)
    /\ quizPending' = quizPending + 1
    /\ quizLastOp' = "generateQuiz"
    /\ UNCHANGED <<studyVars, offlineVars, pipeVars, viewVars>>

\* The response arrives: the whole slice is replaced.
QuizGenerateOk ==
    /\ quizPending > 0
    /\ \E qs \in SeqsUpTo(GeneratedQuestion, MaxQuestions),
          src \in ResponseSources :
          quizState' = GeneratedQuiz(qs, src)
    /\ quizPending' = quizPending - 1
    /\ quizLastOp' = "generateQuiz"
    /\ UNCHANGED <<studyVars, offlineVars, pipeVars, viewVars>>

\* The request fails: the catch branch keeps the slice and records the error.
QuizGenerateFail ==
    /\ quizPending > 0
    /\ quizState' = GenerateFailedQuiz(quizState)
    /\ quizPending' = quizPending - 1
    /\ quizLastOp' = "generateQuiz"
    /\ UNCHANGED <<studyVars, offlineVars, pipeVars, viewVars>>

submitQuizAnswer ==
    /\ \E questionIndex \in AnswerIndex, answer \in Answers :
          quizState' = AnsweredQuiz(quizState, questionIndex, answer)
    /\ quizLastOp' = "submitQuizAnswer"
    /\ UNCHANGED <<quizPending, studyVars, offlineVars, pipeVars, viewVars>>

nextQuestion ==
    /\ quizState' = AdvancedQuiz(quizState)
    /\ quizLastOp' = "nextQuestion"
    /\ UNCHANGED <<quizPending, studyVars, offlineVars, pipeVars, viewVars>>

previousQuestion ==
    /\ quizState' = RetreatedQuiz(quizState)
    /\ quizLastOp' = "previousQuestion"
    /\ UNCHANGED <<quizPending, studyVars, offlineVars, pipeVars, viewVars>>

completeQuiz ==
    /\ quizState' = CompletedQuiz(quizState)
    /\ quizLastOp' = "completeQuiz"
    /\ UNCHANGED <<quizPending, studyVars, offlineVars, pipeVars, viewVars>>

resetQuiz ==
    /\ quizState' = ResetQuizState
    /\ quizLastOp' = "resetQuiz"
    /\ UNCHANGED <<quizPending, studyVars, offlineVars, pipeVars, viewVars>>

QuizNext ==
    \/ QuizGenerateStart
    \/ QuizGenerateOk
    \/ QuizGenerateFail
    \/ submitQuizAnswer
    \/ nextQuestion
    \/ previousQuestion
    \/ completeQuiz
    \/ resetQuiz

(***************************************************************************)
(* The Study component.  `study` holds its useState fields; a handler that *)
(* awaits a request is two actions, the part before the await and the part *)
(* that runs when the response (or the failure) arrives.                   *)
(***************************************************************************)
SubjectCodes == {"OS", "DB"}

UnitNames == {"U1", "U2"}

\* The units of a subject as /study/subjects/{code}/units lists them.
LoadedUnits == <<"U1", "U2">>

StudyQuestionIds == 1..MaxQuestions

\* The questions of a /study/generate_quiz response, each question its id;
\* ids in ascending order, an id possibly repeated.
StudyQuizzes ==
    {q \in SeqsUpTo(StudyQuestionIds, MaxQuestions) :
        \A i \in 1..(Len(q) - 1) : q[i] <= q[i + 1]}

EnhancedEndpoint == "/study/generate_enhanced_study_material"
BasicEndpoint == "/study/generate_study_material"
QuizEndpoint == "/study/generate_quiz"
EvaluateEndpoint == "/study/evaluate_quiz"

SelectUnitToast == "Please select at least one unit"

Range(s) == {s[i] : i \in 1..Len(s)}

\* prev.filter(u => u !== unit)
Without(s, unit) == SelectSeq(s, LAMBDA u : u # unit)

initialStudy ==
    [selectedSubject |-> "", selectedUnits |-> <<>>, units |-> <<>>,
     studyMaterials |-> {}, quizQuestions |-> <<>>, currentQuestionIndex |-> 0,
     userAnswers |-> EmptyMap, quizCompleted |-> FALSE,
     evaluationResult |-> Null, loadingUnits |-> FALSE,
     loadingMaterials |-> FALSE, loadingQuiz |-> FALSE,
     loadingEvaluation |-> FALSE, activeStep |-> 1]

initialStudyPending ==
    [unitLoads |-> 0, materials |-> <<>>, quiz |-> <<>>, evaluation |-> <<>>]

Trace(handler, toast, posts) ==
    [handler |-> handler, toast |-> toast, posts |-> posts]

\* Mutant: the guard of the generate handlers never rejects.
NeverRejected(selectedUnits) == FALSE

\* selectedUnits.length === 0, the guard of generateStudyMaterials/generateQuiz.
NoUnitSelected(selectedUnits) == Len(selectedUnits) = 0

\* The endpoint generateStudyMaterials posts to.
MaterialsEndpoint == BasicEndpoint

\* Step 1 (subject cards, unit checkboxes, the two generate buttons) is
\* rendered while activeStep === 1.
Step1Shown == study.activeStep = 1

\* A subject card is clicked.  The effect on [selectedSubject] runs loadUnits
\* when the subject changed (and is not empty).
handleSubjectChange ==
    /\ Step1Shown
    /\ \E subjectCode \in SubjectCodes :
          LET reload == subjectCode # study.selectedSubject
                        /\ studyPending.unitLoads < MaxPending
          IN  /\ subjectCode # study.selectedSubject
                    => studyPending.unitLoads < MaxPending
              /\ study' = [study EXCEPT
                    !.selectedSubject = subjectCode, !.selectedUnits = <<>>,
                    !.studyMaterials = {}, !.quizQuestions = <<>>,
                    !.userAnswers = EmptyMap, !.quizCompleted = FALSE,
                    !.evaluationResult = Null, !.activeStep = 1,
                    !.loadingUnits = IF reload THEN TRUE ELSE @]
              /\ studyPending' = [studyPending EXCEPT
                    !.unitLoads = IF reload THEN @ + 1 ELSE @]
    /\ studyTrace' = Trace("handleSubjectChange", "", <<>>)
    /\ UNCHANGED <<quizVars, offlineVars, pipeVars, viewVars>>

\* loadUnits after its await.
LoadUnitsOk ==
    /\ studyPending.unitLoads > 0
    /\ study' = [study EXCEPT !.units = LoadedUnits, !.loadingUnits = FALSE]
    /\ studyPending' = [studyPending EXCEPT !.unitLoads = @ - 1]
    /\ studyTrace' = Trace("loadUnits", "", <<>>)
    /\ UNCHANGED <<quizVars, offlineVars, pipeVars, viewVars>>

LoadUnitsFail ==
    /\ studyPending.unitLoads > 0
    /\ study' = [study EXCEPT !.loadingUnits = FALSE]
    /\ studyPending' = [studyPending EXCEPT !.unitLoads = @ - 1]
    /\ studyTrace' = Trace("loadUnits", "Failed to load units", <<>>)
    /\ UNCHANGED <<quizVars, offlineVars, pipeVars, viewVars>>

\* A unit checkbox is clicked; the checkboxes are rendered for a selected
\* subject whose units are not loading.
handleUnitToggle ==
    /\ Step1Shown
    /\ study.selectedSubject # ""
    /\ ~study.loadingUnits
    /\ \E unit \in Range(study.units) :
          study' = [study EXCEPT !.selectedUnits =
                       IF unit \in Range(@) THEN Without(@, unit)
                       ELSE Append(@, unit)]
    /\ studyTrace' = Trace("handleUnitToggle", "", <<>>)
    /\ UNCHANGED <<studyPending, quizVars, offlineVars, pipeVars, viewVars>>

\* generateStudyMaterials up to its await.  The button that calls it is
\* rendered in step 1 with a unit selected and disabled while
\* loadingMaterials.
generateStudyMaterials ==
    /\ study.selectedUnits # <<>> => Step1Shown /\ ~study.loadingMaterials
    /\ studyPending.materials = <<>>
    /\ IF NoUnitSelected(study.selectedUnits)
       THEN /\ studyTrace' = Trace("generateStudyMaterials", SelectUnitToast, <<>>)
            /\ UNCHANGED <<study, studyPending, viewVars>>
       ELSE /\ study' = [study EXCEPT !.loadingMaterials = TRUE]
            /\ studyPending' = [studyPending EXCEPT !.materials =
                   <<[subject |-> study.selectedSubject,
                      units |-> study.selectedUnits]>>]
            /\ studyTrace' = Trace("generateStudyMaterials", "",
                                   <<MaterialsEndpoint>>)
    /\ UNCHANGED <<quizVars, offlineVars, pipeVars, viewVars>>

\* The response arrived: study_materials has one entry per requested unit.
GenerateStudyMaterialsOk ==
    /\ studyPending.materials # <<>>
    /\ study' = [study EXCEPT
          !.studyMaterials = Range(studyPending.materials[1].units),
          !.activeStep = 2, !.loadingMaterials = FALSE]
    /\ studyPending' = [studyPending EXCEPT !.materials = <<>>]
    /\ studyTrace' = Trace("generateStudyMaterials",
                           "Study materials generated successfully!", <<>>)
    /\ UNCHANGED <<quizVars, offlineVars, pipeVars, viewVars>>

\* The request failed: the catch branch only reports it.
GenerateStudyMaterialsFail ==
    /\ studyPending.materials # <<>>
    /\ study' = [study EXCEPT !.loadingMaterials = FALSE]
    /\ studyPending' = [studyPending EXCEPT !.materials = <<>>]
    /\ studyTrace' = Trace("generateStudyMaterials",
                           "Failed to generate study materials", <<>>)
    /\ UNCHANGED <<quizVars, offlineVars, pipeVars, viewVars>>

\* generateQuiz up to its await.
generateQuiz ==
    /\ study.selectedUnits # <<>> => Step1Shown /\ ~study.loadingQuiz
    /\ studyPending.quiz = <<>>
    /\ IF NoUnitSelected(study.selectedUnits)
       THEN /\ studyTrace' = Trace("generateQuiz", SelectUnitToast, <<>>)
            /\ UNCHANGED <<study, studyPending, viewVars>>
       ELSE /\ study' = [study EXCEPT !.loadingQuiz = TRUE]
            /\ studyPending' = [studyPending EXCEPT !.quiz =
                   <<[subject |-> study.selectedSubject,
                      units |-> study.selectedUnits]>>]
            /\ studyTrace' = Trace("generateQuiz", "", <<QuizEndpoint>>)
    /\ UNCHANGED <<quizVars, offlineVars, pipeVars, viewVars>>

GenerateQuizOk ==
    /\ studyPending.quiz # <<>>
    /\ \E questions \in StudyQuizzes :
          study' = [study EXCEPT !.quizQuestions = questions,
                                 !.activeStep = 3, !.loadingQuiz = FALSE]
    /\ studyPending' = [studyPending EXCEPT !.quiz = <<>>]
    /\ studyTrace' = Trace("generateQuiz", "Quiz generated successfully!", <<>>)
    /\ UNCHANGED <<quizVars, offlineVars, pipeVars, viewVars>>

GenerateQuizFail ==
    /\ studyPending.quiz # <<>>
    /\ study' = [study EXCEPT !.loadingQuiz = FALSE]
    /\ studyPending' = [studyPending EXCEPT !.quiz = <<>>]
    /\ studyTrace' = Trace("generateQuiz", "Failed to generate quiz", <<>>)
    /\ UNCHANGED <<quizVars, offlineVars, pipeVars, viewVars>>

\* The Reset button.  The [selectedSubject] effect does not load units for
\* the empty subject.
resetStudy ==
    /\ study' = [study EXCEPT
          !.selectedSubject = "", !.selectedUnits = <<>>, !.units = <<>>,
          !.studyMaterials = {}, !.quizQuestions = <<>>,
          !.userAnswers = EmptyMap, !.quizCompleted = FALSE,
          !.evaluationResult = Null, !.activeStep = 1]
    /\ studyTrace' = Trace("resetStudy", "", <<>>)
    /\ UNCHANGED <<studyPending, quizVars, offlineVars, pipeVars, viewVars>>

\* The options of a question of the Study quiz.
StudyOptions == {"A", "B"}

Max(a, b) == IF a >= b THEN a ELSE b

Min(a, b) == IF a <= b THEN a ELSE b

\* Step 3 shows the question view: activeStep >= 3, there are questions, the
\* quiz is not completed.
QuestionViewShown ==
    /\ study.activeStep >= 3
    /\ Len(study.quizQuestions) > 0
    /\ ~study.quizCompleted

\* const currentQuestion = quizQuestions[currentQuestionIndex]; undefined
\* outside the array.
HasCurrentQuestion ==
    study.currentQuestionIndex + 1 \in 1..Len(study.quizQuestions)

\* Mutant: submitQuiz never finds the answers incomplete.
NeverIncomplete(userAnswers, quizQuestions) == FALSE

\* Object.keys(userAnswers).length !== quizQuestions.length, the test of
\* submitQuiz and of the disabled attribute of its button.
AnswersIncomplete(userAnswers, quizQuestions) ==
    Cardinality(DOMAIN userAnswers) # Len(quizQuestions)

\* A radio button of the current question is chosen; the options are those
\* of currentQuestion, none when it is undefined.
handleAnswerSelect ==
    /\ QuestionViewShown
    /\ HasCurrentQuestion
    /\ \E answer \in StudyOptions :
          study' = [study EXCEPT !.userAnswers =
                       Put(@, study.quizQuestions[study.currentQuestionIndex + 1],
                           answer)]
    /\ studyTrace' = Trace("handleAnswerSelect", "", <<>>)
    /\ UNCHANGED <<studyPending, quizVars, offlineVars, pipeVars, viewVars>>

\* The Previous button, disabled on the first question.
PreviousQuestion ==
    /\ QuestionViewShown
    /\ study.currentQuestionIndex # 0
    /\ study' = [study EXCEPT !.currentQuestionIndex = Max(0, @ - 1)]
    /\ studyTrace' = Trace("Previous", "", <<>>)
    /\ UNCHANGED <<studyPending, quizVars, offlineVars, pipeVars, viewVars>>

\* The Next button, rendered unless the current question is the last one.
NextQuestion ==
    /\ QuestionViewShown
    /\ study.currentQuestionIndex # Len(study.quizQuestions) - 1
    /\ study' = [study EXCEPT !.currentQuestionIndex =
                    Min(Len(study.quizQuestions) - 1, @ + 1)]
    /\ studyTrace' = Trace("Next", "", <<>>)
    /\ UNCHANGED <<studyPending, quizVars, offlineVars, pipeVars, viewVars>>

\* submitQuiz up to its await.  Its button is rendered on the last question
\* and disabled while loadingEvaluation or while the answers are incomplete.
submitQuiz ==
    /\ QuestionViewShown
    /\ study.currentQuestionIndex = Len(study.quizQuestions) - 1
    /\ ~study.loadingEvaluation
    /\ ~AnswersIncomplete(study.userAnswers, study.quizQuestions)
    /\ studyPending.evaluation = <<>>
    /\ IF AnswersIncomplete(study.userAnswers, study.quizQuestions)
       THEN /\ studyTrace' = Trace("submitQuiz",
                                   "Please answer all questions before submitting",
                                   <<>>)
            /\ UNCHANGED <<study, studyPending>>
       ELSE /\ study' = [study EXCEPT !.loadingEvaluation = TRUE]
            /\ studyPending' = [studyPending EXCEPT !.evaluation =
                   <<EvaluateEndpoint>>]
            /\ studyTrace' = Trace("submitQuiz", "", <<EvaluateEndpoint>>)
    /\ UNCHANGED <<quizVars, offlineVars, pipeVars, viewVars>>

\* The evaluation arrived.
SubmitQuizOk ==
    /\ studyPending.evaluation # <<>>
    /\ study' = [study EXCEPT !.evaluationResult = "evaluated",
                              !.quizCompleted = TRUE, !.activeStep = 4,
                              !.loadingEvaluation = FALSE]
    /\ studyPending' = [studyPending EXCEPT !.evaluation = <<>>]
    /\ studyTrace' = Trace("submitQuiz", "Quiz completed! Score: X%", <<>>)
    /\ UNCHANGED <<quizVars, offlineVars, pipeVars, viewVars>>

SubmitQuizFail ==
    /\ studyPending.evaluation # <<>>
    /\ study' = [study EXCEPT !.loadingEvaluation = FALSE]
    /\ studyPending' = [studyPending EXCEPT !.evaluation = <<>>]
    /\ studyTrace' = Trace("submitQuiz", "Failed to evaluate quiz", <<>>)
    /\ UNCHANGED <<quizVars, offlineVars, pipeVars, viewVars>>

StudyInit ==
    /\ study = initialStudy
    /\ studyPending = initialStudyPending
    /\ studyTrace = Trace("none", "", <<>>)

StudyNext ==
    \/ handleSubjectChange
    \/ LoadUnitsOk
    \/ LoadUnitsFail
    \/ handleUnitToggle
    \/ generateStudyMaterials
    \/ GenerateStudyMaterialsOk
    \/ GenerateStudyMaterialsFail
    \/ generateQuiz
    \/ GenerateQuizOk
    \/ GenerateQuizFail
    \/ resetStudy

\* Every step of the component but Reset: what the user can do, and what
\* the responses do, when the Reset button is left alone.
StudyFlowNext ==
    \/ handleSubjectChange
    \/ LoadUnitsOk
    \/ LoadUnitsFail
    \/ handleUnitToggle
    \/ generateStudyMaterials
    \/ GenerateStudyMaterialsOk
    \/ GenerateStudyMaterialsFail
    \/ generateQuiz
    \/ GenerateQuizOk
    \/ GenerateQuizFail

\* The steps of the component around its quiz: the selection of subject and
\* units, the generation of the quiz, the quiz itself and Reset.
StudyQuizNext ==
    \/ handleSubjectChange
    \/ LoadUnitsOk
    \/ LoadUnitsFail
    \/ handleUnitToggle
    \/ generateQuiz
    \/ GenerateQuizOk
    \/ GenerateQuizFail
    \/ handleAnswerSelect
    \/ PreviousQuestion
    \/ NextQuestion
    \/ submitQuiz
    \/ SubmitQuizOk
    \/ SubmitQuizFail
    \/ resetStudy

(***************************************************************************)
(* The OfflineManager component and the offline quiz storage behind the    *)
(* /available_quizzes and /load_quiz endpoints.  The storage is a          *)
(* key-value store: a generated quiz is kept under its subject/unit/topic  *)
(* key and read back as it was written.                                    *)
(***************************************************************************)
\* subject/unit/topic of a stored quiz.
QuizKeys == {"k1", "k2"}

\* The questions kept in the offline storage in this model.
StoredQuestion ==
    {q \in QuizQuestion : /\ q.answer = "A"
                          /\ q.difficulty \in {Undefined, "easy"}
                          /\ q.type \in {"", "true_false"}
                          /\ (q.difficulty = Undefined => q.type # "")}

\* Mutant: the defaults overwrite the fields of every loaded question.
AlwaysDefaults(q) == [q EXCEPT !.difficulty = "medium", !.type = "mcq"]

\* handleRetryQuiz: {...q, difficulty: q.difficulty || 'medium',
\*                         type: q.type || 'mcq'}
WithDefaults(q) ==
    [q EXCEPT !.difficulty = OrElse(q.difficulty, "medium"),
              !.type = OrElse(q.type, "mcq")]

\* quizData.questions.map(...)
ConvertLoaded(questions) == [i \in 1..Len(questions) |-> WithDefaults(questions[i])]

\* `Loaded ${questions.length} questions from offline storage`
LoadedToast == "Loaded questions from offline storage"

OfflineTrace(handler, toast, key, loaded) ==
    [handler |-> handler, toast |-> toast, key |-> key, loaded |-> loaded]

\* The backend persists a generated quiz under a key of its own (the stored
\* file carries the time of the save in its name).
SaveQuiz ==
    /\ \E k \in QuizKeys \ DOMAIN offlineStore,
          questions \in SeqsUpTo(StoredQuestion, MaxStored) :
          offlineStore' = Put(offlineStore, k, questions)
    /\ offlineTrace' = OfflineTrace("save_quiz", "", "", <<>>)
    /\ UNCHANGED <<offline, offlinePending, quizVars, studyVars, pipeVars, viewVars>>

\* loadOfflineContent up to its first await (on mount and after a delete).
loadOfflineContent ==
    /\ offlinePending < MaxPending
    /\ offline' = [offline EXCEPT !.loading = TRUE]
    /\ offlinePending' = offlinePending + 1
    /\ offlineTrace' = OfflineTrace("loadOfflineContent", "", "", <<>>)
    /\ UNCHANGED <<offlineStore, quizVars, studyVars, pipeVars, viewVars>>

\* /available_quizzes answered: the list shows the stored quizzes.
LoadOfflineContentOk ==
    /\ offlinePending > 0
    /\ offline' = [offline EXCEPT !.quizzes = DOMAIN offlineStore,
                                  !.loading = FALSE]
    /\ offlinePending' = offlinePending - 1
    /\ offlineTrace' = OfflineTrace("loadOfflineContent", "", "", <<>>)
    /\ UNCHANGED <<offlineStore, quizVars, studyVars, pipeVars, viewVars>>

LoadOfflineContentFail ==
    /\ offlinePending > 0
    /\ offline' = [offline EXCEPT !.loading = FALSE]
    /\ offlinePending' = offlinePending - 1
    /\ offlineTrace' = OfflineTrace("loadOfflineContent",
                                    "Failed to load offline content", "", <<>>)
    /\ UNCHANGED <<offlineStore, quizVars, studyVars, pipeVars, viewVars>>

\* The Load button of a listed quiz: /load_quiz answers with the stored
\* quiz, which is converted; the component keeps nothing but the toast.
handleRetryQuiz ==
    /\ \E quiz \in offline.quizzes :
          /\ quiz \in DOMAIN offlineStore
          /\ offlineTrace' = OfflineTrace("handleRetryQuiz", LoadedToast,
                                 quiz, ConvertLoaded(offlineStore[quiz]))
    /\ UNCHANGED <<offlineStore, offline, offlinePending, quizVars, studyVars, pipeVars, viewVars>>

\* The request fails (network error, non-2xx answer).
HandleRetryQuizFail ==
    /\ \E quiz \in offline.quizzes :
          offlineTrace' = OfflineTrace("handleRetryQuiz",
                              "Failed to load quiz from offline storage", quiz, <<>>)
    /\ UNCHANGED <<offlineStore, offline, offlinePending, quizVars, studyVars, pipeVars, viewVars>>

\* The Delete button, confirmed: the request to the backend is commented
\* out; success is reported and the list is loaded again.
handleDeleteQuiz ==
    /\ offlinePending < MaxPending
    /\ \E quiz \in offline.quizzes :
          offlineTrace' = OfflineTrace("handleDeleteQuiz",
                              "Quiz deleted successfully", quiz, <<>>)
    /\ offline' = [offline EXCEPT !.loading = TRUE]
    /\ offlinePending' = offlinePending + 1
    /\ UNCHANGED <<offlineStore, quizVars, studyVars, pipeVars, viewVars>>

OfflineInit ==
    /\ offlineStore = EmptyMap
    /\ offline = [quizzes |-> {}, loading |-> FALSE]
    /\ offlinePending = 0
    /\ offlineTrace = OfflineTrace("none", "", "", <<>>)

OfflineNext ==
    \/ SaveQuiz
    \/ loadOfflineContent
    \/ LoadOfflineContentOk
    \/ LoadOfflineContentFail
    \/ handleRetryQuiz
    \/ HandleRetryQuizFail
    \/ handleDeleteQuiz

(***************************************************************************)
(* The study-material acquisition pipeline of the backend: the fallback    *)
(* selector, which tries four tiers in order for each unit of a request,   *)
(* and the parallel dispatcher of tier 1, which runs the three category    *)
(* aggregators as workers of a pool and merges what they return.  An entry *)
(* holds, per category, the number of records found.                       *)
(***************************************************************************)
Categories == {"articles", "videos", "notes"}

\* The sources one category aggregator fetches from, one after the other.
Sites == {"s1"}

NumTiers == 4

NumSites == Cardinality(Sites)

FailureKinds == {"timeout", "parse_error", "non_2xx", "exception"}

\* A site yields at most one record.
Entry == [Categories -> 0..NumSites]

EmptyEntry == [c \in Categories |-> 0]

IsEmptyEntry(e) == \A c \in Categories : e[c] = 0

idleWorkers == [c \in Categories |-> [status |-> "idle", site |-> 0, acc |-> 0]]

noMerged == [valid |-> FALSE, entry |-> EmptyEntry]

idlePipe ==
    [phase |-> "idle", units |-> 0, unit |-> 0, tier |-> 0, attempts |-> <<>>,
     materials |-> <<>>, history |-> <<>>, status |-> "none"]

\* Mutant: the chain stops only on a result with all three categories.
StopOnCompleteResult(result, tier) ==
    (\A c \in Categories : result[c] > 0) \/ tier = NumTiers

\* The selector stops at a tier whose result has a non-empty category, and
\* after the last tier.
StopChain(result, tier) == ~IsEmptyEntry(result) \/ tier = NumTiers

\* Mutant: a failing tier raises to the caller.
FailurePropagates(kind) == FALSE

\* A tier failure is caught where it happens and counts as zero results.
FailureCaught(kind) == kind \in FailureKinds

\* The dispatcher joins all three workers before it merges.
AllReported(w) == \A c \in Categories : w[c].status \in {"done", "failed"}

\* Mutant: the workers add to one accumulator, which every category gets.
MergeShared(w) ==
    [c \in Categories |-> w["articles"].acc + w["videos"].acc + w["notes"].acc]

\* The merge by category key: a worker that failed contributes nothing.
MergeByCategory(w) ==
    [c \in Categories |-> IF w[c].status = "done" THEN w[c].acc ELSE 0]

\* Mutant: a worker that hangs is never timed out.
NeverTimesOut(w) == FALSE

\* A worker, running or blocked in a slow fetch, can fail or be timed out.
MayTimeOut(w) == w.status \in {"running", "hung"}

\* Mutant: the selector skips the basic scrape.
SkipBasicScrape(attempted) == IF attempted = 1 THEN 3 ELSE attempted + 1

\* The tier tried after `attempted` tiers.
NextTier(attempted) == attempted + 1

\* The HTTP layer receives a request for n units; an empty units list is a
\* validation failure.
StartRequest ==
    /\ pipe.phase = "idle"
    /\ \E n \in 0..MaxUnits :
          pipe' = IF n = 0
                  THEN [idlePipe EXCEPT !.phase = "responded",
                                        !.status = "validation_error"]
                  ELSE [idlePipe EXCEPT !.phase = "running", !.units = n,
                                        !.unit = 1]
    /\ pipeLog' = ""
    /\ UNCHANGED <<workers, merged, quizVars, studyVars, offlineVars, viewVars>>

\* The attempt of a tier ended with `result`; an attempt that failed ends
\* with the empty result, like one that found nothing.
EndAttempt(result) ==
    LET tier == pipe.tier
        kind == IF ~IsEmptyEntry(result) THEN "items" ELSE "none"
        attempts == Append(pipe.attempts, kind)
    IN  IF StopChain(result, tier)
        THEN LET done == [pipe EXCEPT
                             !.materials = Append(@, result),
                             !.history = Append(@, attempts),
                             !.tier = 0, !.attempts = <<>>]
             IN  IF pipe.unit = pipe.units
                 THEN [done EXCEPT !.phase = "responded", !.status = "ok"]
                 ELSE [done EXCEPT !.unit = @ + 1]
        ELSE [pipe EXCEPT !.tier = 0, !.attempts = attempts]

\* The exception of a failing tier escapes the selector.
Raise == [pipe EXCEPT !.phase = "responded", !.status = "error", !.tier = 0]

\* Tier 1 starts: the dispatcher submits the three aggregators to the pool.
Dispatch ==
    /\ pipe.phase = "running" /\ pipe.tier = 0 /\ Len(pipe.attempts) = 0
    /\ pipe' = [pipe EXCEPT !.tier = 1]
    /\ workers' = [c \in Categories |-> [status |-> "running", site |-> 0, acc |-> 0]]
    /\ merged' = noMerged
    /\ pipeLog' = ""
    /\ UNCHANGED <<quizVars, studyVars, offlineVars, viewVars>>

\* A worker fetches from its next site and adds what it found to its own
\* accumulator; a fetch that fails adds nothing, and a fetch of a site that
\* does not answer blocks the worker.
WorkerFetch(c) ==
    /\ pipe.tier = 1
    /\ workers[c].status = "running"
    /\ workers[c].site < NumSites
    /\ \/ \E found \in {0, 1} :
             workers' = [workers EXCEPT ![c].site = @ + 1,
                                        ![c].acc = @ + found]
       \/ workers' = [workers EXCEPT ![c].status = "hung"]
    /\ UNCHANGED <<pipe, merged, pipeLog, quizVars, studyVars, offlineVars, viewVars>>

\* A worker is through its sites and returns its accumulator.
WorkerReport(c) ==
    /\ pipe.tier = 1
    /\ workers[c].status = "running"
    /\ workers[c].site = NumSites
    /\ workers' = [workers EXCEPT ![c].status = "done"]
    /\ UNCHANGED <<pipe, merged, pipeLog, quizVars, studyVars, offlineVars, viewVars>>

\* A worker raises or is timed out; it returns nothing.
WorkerFail(c) ==
    /\ pipe.tier = 1
    /\ MayTimeOut(workers[c])
    /\ workers' = [workers EXCEPT ![c] = [status |-> "failed", site |-> 0, acc |-> 0]]
    /\ UNCHANGED <<pipe, merged, pipeLog, quizVars, studyVars, offlineVars, viewVars>>

\* The dispatcher merges the workers' results; tier 1 ends.
Merge ==
    /\ pipe.tier = 1
    /\ ~merged.valid
    /\ AllReported(workers)
    /\ LET result == MergeByCategory(workers)
           failed == \E c \in Categories : workers[c].status = "failed"
       IN  /\ merged' = [valid |-> TRUE, entry |-> result]
           /\ pipe' = EndAttempt(result)
           /\ pipeLog' = IF failed /\ IsEmptyEntry(result) THEN "exception" ELSE ""
    /\ UNCHANGED <<workers, quizVars, studyVars, offlineVars, viewVars>>

\* The next tier (basic scrape, AI generation, static table) starts; the
\* dispatcher has returned and its pool is gone.
BeginTier ==
    /\ pipe.phase = "running" /\ pipe.tier = 0
    /\ Len(pipe.attempts) \in 1..(NumTiers - 1)
    /\ pipe' = [pipe EXCEPT !.tier = NextTier(Len(pipe.attempts))]
    /\ workers' = idleWorkers
    /\ merged' = noMerged
    /\ pipeLog' = ""
    /\ UNCHANGED <<quizVars, studyVars, offlineVars, viewVars>>

\* The running tier returns a result (possibly empty).
TierReturns ==
    /\ pipe.tier \in 2..NumTiers
    /\ \E result \in Entry : pipe' = EndAttempt(result)
    /\ pipeLog' = ""
    /\ UNCHANGED <<workers, merged, quizVars, studyVars, offlineVars, viewVars>>

\* The running tier fails: a warning is logged.
TierFails ==
    /\ pipe.tier \in 2..NumTiers
    /\ \E kind \in FailureKinds :
          /\ pipe' = IF FailureCaught(kind) THEN EndAttempt(EmptyEntry)
                     ELSE Raise
          /\ pipeLog' = kind
    /\ UNCHANGED <<workers, merged, quizVars, studyVars, offlineVars, viewVars>>

\* The response is sent; the request is over.
Deliver ==
    /\ pipe.phase = "responded"
    /\ pipe' = idlePipe
    /\ workers' = idleWorkers
    /\ merged' = noMerged
    /\ pipeLog' = ""
    /\ UNCHANGED <<quizVars, studyVars, offlineVars, viewVars>>

PipelineInit ==
    /\ pipe = idlePipe
    /\ workers = idleWorkers
    /\ merged = noMerged
    /\ pipeLog = ""

PipelineStep ==
    \/ Dispatch
    \/ \E c \in Categories : WorkerFetch(c)
    \/ \E c \in Categories : WorkerReport(c)
    \/ \E c \in Categories : WorkerFail(c)
    \/ Merge
    \/ BeginTier
    \/ TierReturns
    \/ TierFails

PipelineNext ==
    \/ StartRequest
    \/ PipelineStep
    \/ Deliver

(***************************************************************************)
(* The transcription modal (TranscriptionModal.tsx) and the transcription  *)
(* slice of the store.  React runs the effect of the modal after a render  *)
(* in which one of its dependencies differs from the render before; the    *)
(* effect runs before the next event is handled.                           *)
(***************************************************************************)
VideoUrls == {"", "u"}

Transcriptions == {"", "text"}

TranscribeErrors == {"Network Error"}

\* useVideoStore: the initial transcriptionState, also what
\* clearTranscription stores.
initialTranscriptionState ==
    [transcription |-> "", summary |-> "", video_title |-> "", video_url |-> "",
     isTranscribing |-> FALSE, isSummarizing |-> FALSE,
     transcriptionError |-> Null, summarizationError |-> Null]

\* [isOpen, video.video_url, transcription, isTranscribing]
EffectDeps(open, url, ts) == <<open, url, ts.transcription, ts.isTranscribing>>

\* No render has happened yet.
NoDeps == <<>>

closedModal == [isOpen |-> FALSE, video_url |-> "u", deps |-> NoDeps]

\* The dependencies of the effect changed: the effect is about to run.
EffectDue == modal.deps # EffectDeps(modal.isOpen, modal.video_url, transcriptionState)

TransTrace(handler, requested, errorBefore) ==
    [handler |-> handler, requested |-> requested, errorBefore |-> errorBefore]

\* transcribeVideo up to its await.
TranscribeStart(ts) ==
    [ts EXCEPT !.isTranscribing = TRUE, !.transcriptionError = Null]

\* isOpen && video.video_url && !transcription && !isTranscribing
AutoTranscribeCondition ==
    /\ modal.isOpen
    /\ Truthy(modal.video_url)
    /\ ~Truthy(transcriptionState.transcription)
    /\ ~transcriptionState.isTranscribing

\* The parent opens the modal for a video.
OpenModal ==
    /\ ~EffectDue
    /\ ~modal.isOpen
    /\ transPending < MaxPending
    /\ \E url \in VideoUrls : modal' = [modal EXCEPT !.isOpen = TRUE, !.video_url = url]
    /\ transTrace' = TransTrace("open", FALSE, transcriptionState.transcriptionError)
    /\ UNCHANGED <<transcriptionState, transPending, sumPending, nonTransVars>>

\* The effect of the modal.
AutoTranscribe ==
    /\ EffectDue
    /\ modal' = [modal EXCEPT
                    !.deps = EffectDeps(modal.isOpen, modal.video_url, transcriptionState)]
    /\ IF AutoTranscribeCondition
       THEN /\ transcriptionState' = TranscribeStart(transcriptionState)
            /\ transPending' = transPending + 1
            /\ transTrace' = TransTrace("useEffect", TRUE,
                                        transcriptionState.transcriptionError)
       ELSE /\ transTrace' = TransTrace("useEffect", FALSE,
                                        transcriptionState.transcriptionError)
            /\ UNCHANGED <<transcriptionState, transPending>>
    /\ UNCHANGED <<sumPending, nonTransVars>>

\* transcribeVideo: the response arrives.
TranscribeOk ==
    /\ ~EffectDue
    /\ transPending > 0
    /\ \E text \in Transcriptions :
          transcriptionState' =
              [transcriptionState EXCEPT
                  !.transcription = text, !.video_title = "title",
                  !.video_url = "u", !.isTranscribing = FALSE,
                  !.transcriptionError = Null]
    /\ transPending' = transPending - 1
    /\ transTrace' = TransTrace("transcribeVideo", FALSE,
                                transcriptionState.transcriptionError)
    /\ UNCHANGED <<modal, sumPending, nonTransVars>>

\* transcribeVideo: the request fails; the catch branch records the error.
TranscribeFail ==
    /\ ~EffectDue
    /\ transPending > 0
    /\ \E message \in TranscribeErrors :
          transcriptionState' =
              [transcriptionState EXCEPT
                  !.isTranscribing = FALSE, !.transcriptionError = message]
    /\ transPending' = transPending - 1
    /\ transTrace' = TransTrace("transcribeVideo", FALSE,
                                transcriptionState.transcriptionError)
    /\ UNCHANGED <<modal, sumPending, nonTransVars>>

\* The Retry button, shown with the error.
RetryClick ==
    /\ ~EffectDue
    /\ modal.isOpen
    /\ Truthy(transcriptionState.transcriptionError)
    /\ transcriptionState' = TranscribeStart(transcriptionState)
    /\ transPending' = transPending + 1
    /\ transTrace' = TransTrace("retry", TRUE, transcriptionState.transcriptionError)
    /\ UNCHANGED <<modal, sumPending, nonTransVars>>

\* handleClose: clearTranscription(), onClose().
handleClose ==
    /\ ~EffectDue
    /\ modal.isOpen
    /\ transcriptionState' = initialTranscriptionState
    /\ modal' = [modal EXCEPT !.isOpen = FALSE]
    /\ transTrace' = TransTrace("handleClose", FALSE,
                                transcriptionState.transcriptionError)
    /\ UNCHANGED <<transPending, sumPending, nonTransVars>>

\* handleSummarize, from the Generate Summary button (shown with a
\* transcription while there is no summary and none is being made) or from
\* the Retry button of a summarization error: summarizeTranscription up to
\* its await.
handleSummarize ==
    /\ ~EffectDue
    /\ modal.isOpen
    /\ Truthy(transcriptionState.transcription)
    /\ \/ ~Truthy(transcriptionState.summary) /\ ~transcriptionState.isSummarizing
       \/ Truthy(transcriptionState.summarizationError)
    /\ ~transcriptionState.isSummarizing
    /\ sumPending < MaxPending
    /\ transcriptionState' = [transcriptionState EXCEPT
                                 !.isSummarizing = TRUE, !.summarizationError = Null]
    /\ sumPending' = sumPending + 1
    /\ transTrace' = TransTrace("handleSummarize", FALSE,
                                transcriptionState.transcriptionError)
    /\ UNCHANGED <<modal, transPending, nonTransVars>>

\* summarizeTranscription: the response arrives.
SummarizeOk ==
    /\ ~EffectDue
    /\ sumPending > 0
    /\ \E summary \in {"", "summary"} :
          transcriptionState' = [transcriptionState EXCEPT
                                    !.summary = summary, !.isSummarizing = FALSE,
                                    !.summarizationError = Null]
    /\ sumPending' = sumPending - 1
    /\ transTrace' = TransTrace("summarizeTranscription", FALSE,
                                transcriptionState.transcriptionError)
    /\ UNCHANGED <<modal, transPending, nonTransVars>>

\* summarizeTranscription: the request fails.
SummarizeFail ==
    /\ ~EffectDue
    /\ sumPending > 0
    /\ \E message \in TranscribeErrors :
          transcriptionState' = [transcriptionState EXCEPT
                                    !.isSummarizing = FALSE,
                                    !.summarizationError = message]
    /\ sumPending' = sumPending - 1
    /\ transTrace' = TransTrace("summarizeTranscription", FALSE,
                                transcriptionState.transcriptionError)
    /\ UNCHANGED <<modal, transPending, nonTransVars>>

TranscriptionInit ==
    /\ transcriptionState = initialTranscriptionState
    /\ modal = closedModal
    /\ transPending = 0
    /\ sumPending = 0
    /\ transTrace = TransTrace("none", FALSE, Null)

TranscriptionNext ==
    \/ OpenModal
    \/ AutoTranscribe
    \/ TranscribeOk
    \/ TranscribeFail
    \/ RetryClick
    \/ handleSummarize
    \/ SummarizeOk
    \/ SummarizeFail
    \/ handleClose

(***************************************************************************)
(* The theme (ThemeContext.tsx): ThemeProvider keeps the theme in a        *)
(* useState field that starts from localStorage; its effect, which runs    *)
(* after the first render and after a render with another theme, applies   *)
(* the theme to the document and stores it.                                *)
(***************************************************************************)
Themes == {"light", "dark", "system"}

\* Mutant: a provider always starts with the system theme.
StartsWithSystem(stored) == "system"

\* The theme a provider starts with: stored || 'system'.
StartTheme(stored) == OrElse(stored, "system")

\* updateTheme: shouldBeDark.
ShouldBeDark(theme, systemDark) ==
    IF theme = "dark" THEN TRUE
    ELSE IF theme = "light" THEN FALSE
    ELSE systemDark

unmountedProvider ==
    [mounted |-> FALSE, theme |-> "system", isDark |-> FALSE, effectTheme |-> Null]

ThemeTrace(handler, storedBefore, lastSet) ==
    [handler |-> handler, storedBefore |-> storedBefore, lastSet |-> lastSet]

\* The effect is about to run: first render, or the theme changed.
ThemeEffectDue == provider.mounted /\ provider.effectTheme # provider.theme

\* The application is loaded: ThemeProvider mounts.
MountProvider ==
    /\ ~provider.mounted
    /\ provider' = [mounted |-> TRUE, theme |-> StartTheme(themeStore),
                    isDark |-> FALSE, effectTheme |-> Null]
    /\ themeTrace' = ThemeTrace("mount", themeStore, themeTrace.lastSet)
    /\ UNCHANGED <<themeStore, page, nonThemeVars>>

\* The effect: updateTheme(), localStorage.setItem('theme', theme).
ThemeEffect ==
    /\ ThemeEffectDue
    /\ LET dark == ShouldBeDark(provider.theme, page.systemDark)
       IN  /\ provider' = [provider EXCEPT !.isDark = dark,
                                           !.effectTheme = provider.theme]
           /\ page' = [page EXCEPT !.rootDark = dark]
    /\ themeStore' = provider.theme
    /\ themeTrace' = ThemeTrace("useEffect", themeStore, themeTrace.lastSet)
    /\ UNCHANGED nonThemeVars

\* setTheme(t), from the theme toggle.
setTheme ==
    /\ provider.mounted /\ ~ThemeEffectDue
    /\ \E t \in Themes :
          /\ provider' = [provider EXCEPT !.theme = t]
          /\ themeTrace' = ThemeTrace("setTheme", themeStore, t)
    /\ UNCHANGED <<themeStore, page, nonThemeVars>>

\* The system preference changes.  The listener is the handleChange that the
\* last run of the effect registered; it tests the theme of that run.
SystemThemeChange ==
    /\ LET systemDark == ~page.systemDark
           listening == provider.mounted /\ provider.effectTheme = "system"
       IN  /\ page' = [systemDark |-> systemDark,
                       rootDark |-> IF listening THEN systemDark ELSE page.rootDark]
           /\ provider' = IF listening THEN [provider EXCEPT !.isDark = systemDark]
                          ELSE provider
    /\ themeTrace' = ThemeTrace("handleChange", themeStore, themeTrace.lastSet)
    /\ UNCHANGED <<themeStore, nonThemeVars>>

\* The application is closed or reloaded.
UnmountProvider ==
    /\ provider.mounted /\ ~ThemeEffectDue
    /\ provider' = unmountedProvider
    /\ themeTrace' = ThemeTrace("unmount", themeStore, themeTrace.lastSet)
    /\ UNCHANGED <<themeStore, page, nonThemeVars>>

\* The user clears the site data of the browser while the application is
\* closed.
ClearStorage ==
    /\ ~provider.mounted
    /\ themeStore # Null
    /\ themeStore' = Null
    /\ themeTrace' = ThemeTrace("clear", themeStore, Null)
    /\ UNCHANGED <<provider, page, nonThemeVars>>

\* The application is not loaded yet and nothing is stored.
ThemeInit ==
    /\ themeStore = Null
    /\ provider = unmountedProvider
    /\ page = [systemDark |-> FALSE, rootDark |-> FALSE]
    /\ themeTrace = ThemeTrace("none", Null, Null)

ThemeNext ==
    \/ MountProvider
    \/ ThemeEffect
    \/ setTheme
    \/ SystemThemeChange
    \/ UnmountProvider
    \/ ClearStorage

(***************************************************************************)
(* The video list of the store (useVideoStore.ts): the search results, the *)
(* filters, the sort order and the pagination.  A video is its position in *)
(* the response and its duration in seconds; its title has no 'short' in   *)
(* it.  Of the sort options, 'relevance' and 'duration' are modelled       *)
(* ('views', 'likes' and 'date' sort like 'duration', on another field).   *)
(***************************************************************************)
Durations == {30, 100, 300}

SortOptions == {"relevance", "duration"}

DurationFilters == {"all", "short", "medium"}

ContentTypeFilters == {"all", "videos", "shorts"}

\* The responses of /get_videos: up to MaxVideos videos.
VideoResponses ==
    UNION {{[i \in 1..n |-> [id |-> i, duration |-> d[i]]] : d \in [1..n -> Durations]}
              : n \in 0..MaxVideos}

getDurationCategory(duration) ==
    IF duration = 0 THEN "unknown"
    ELSE IF duration < 240 THEN "short"
    ELSE IF duration < 1200 THEN "medium"
    ELSE "long"

getContentType(video) == IF video.duration < 60 THEN "shorts" ELSE "videos"

\* The test of filterVideos for one video.
PassesFilters(video, filters) ==
    /\ filters.durationFilter # "all"
          => getDurationCategory(video.duration) = filters.durationFilter
    /\ filters.contentTypeFilter # "all"
          => getContentType(video) = filters.contentTypeFilter

filterVideos(videos, filters) ==
    SelectSeq(videos, LAMBDA video : PassesFilters(video, filters))

\* Array.prototype.sort with (a, b) => b.duration - a.duration: stable, the
\* longest first.  The first n videos of `videos`, sorted.
RECURSIVE SortedByDuration(_, _)
SortedByDuration(videos, n) ==
    IF n = 0 THEN <<>>
    ELSE LET sorted == SortedByDuration(videos, n - 1)
             v == videos[n]
             before == SelectSeq(sorted, LAMBDA w : w.duration >= v.duration)
             after == SelectSeq(sorted, LAMBDA w : w.duration < v.duration)
         IN  before \o <<v>> \o after

sortVideos(videos, sortBy) ==
    IF Len(videos) = 0 THEN <<>>
    ELSE IF sortBy = "duration" THEN SortedByDuration(videos, Len(videos))
    ELSE videos

\* videos.slice(startIndex, endIndex)
Slice(videos, startIndex, endIndex) ==
    LET last == IF endIndex < Len(videos) THEN endIndex ELSE Len(videos)
    IN  IF startIndex >= last THEN <<>>
        ELSE [i \in 1..(last - startIndex) |-> videos[startIndex + i]]

paginateVideos(videos, currentPage, itemsPerPage) ==
    LET startIndex == (currentPage - 1) * itemsPerPage
        endIndex == startIndex + itemsPerPage
    IN  Slice(videos, startIndex, endIndex)

\* Pagination: Math.ceil(filteredVideos.length / itemsPerPage)
TotalPages(filteredVideos, itemsPerPage) ==
    (Len(filteredVideos) + itemsPerPage - 1) \div itemsPerPage

initialFilterState ==
    [sortBy |-> "relevance", durationFilter |-> "all",
     contentTypeFilter |-> "all", currentPage |-> 1, itemsPerPage |-> ItemsPerPage]

initialVideoList ==
    [videos |-> <<>>, filteredVideos |-> <<>>, paginatedVideos |-> <<>>,
     error |-> Null, loading |-> FALSE, filterState |-> initialFilterState]

\* setResults(response)
setResults(list, response) ==
    LET filterState == list.filterState
        filtered == filterVideos(response, filterState)
        sorted == sortVideos(filtered, filterState.sortBy)
        paginated == paginateVideos(sorted, filterState.currentPage,
                                    filterState.itemsPerPage)
    IN  [list EXCEPT !.videos = response, !.filteredVideos = sorted,
                     !.paginatedVideos = paginated, !.error = Null,
                     !.filterState = [filterState EXCEPT !.currentPage = 1]]

\* setError(error)
setError(list, error) ==
    [list EXCEPT !.error = error, !.videos = <<>>, !.filteredVideos = <<>>,
                 !.paginatedVideos = <<>>]

\* The list after one of setSortBy, setDurationFilter, setContentTypeFilter,
\* which stores `filters`: the first page of the filtered and sorted videos.
Refiltered(list, filters) ==
    LET filtered == filterVideos(list.videos, filters)
        sorted == sortVideos(filtered, filters.sortBy)
        paginated == paginateVideos(sorted, 1, list.filterState.itemsPerPage)
    IN  [list EXCEPT !.filterState = [filters EXCEPT !.currentPage = 1],
                     !.filteredVideos = sorted, !.paginatedVideos = paginated]

\* fetchVideos up to its await: setLoading(true), setError('').
FetchVideosStart ==
    /\ listPending < MaxPending
    /\ videoList' = [setError(videoList, "") EXCEPT !.loading = TRUE]
    /\ listPending' = listPending + 1
    /\ listLastOp' = "fetchVideos"
    /\ UNCHANGED nonListVars

\* fetchVideos: the response arrives; setResults, setLoading(false).
FetchVideosOk ==
    /\ listPending > 0
    /\ \E response \in VideoResponses :
          videoList' = [setResults(videoList, response) EXCEPT !.loading = FALSE]
    /\ listPending' = listPending - 1
    /\ listLastOp' = "setResults"
    /\ UNCHANGED nonListVars

\* fetchVideos: the request fails; setError, setLoading(false).
FetchVideosFail ==
    /\ listPending > 0
    /\ videoList' = [setError(videoList, "Failed to fetch videos") EXCEPT
                        !.loading = FALSE]
    /\ listPending' = listPending - 1
    /\ listLastOp' = "setError"
    /\ UNCHANGED nonListVars

setSortBy ==
    /\ \E sortBy \in SortOptions :
          videoList' = Refiltered(videoList,
                           [videoList.filterState EXCEPT !.sortBy = sortBy])
    /\ listLastOp' = "setSortBy"
    /\ UNCHANGED <<listPending, nonListVars>>

setDurationFilter ==
    /\ \E durationFilter \in DurationFilters :
          videoList' = Refiltered(videoList,
                           [videoList.filterState EXCEPT
                               !.durationFilter = durationFilter])
    /\ listLastOp' = "setDurationFilter"
    /\ UNCHANGED <<listPending, nonListVars>>

setContentTypeFilter ==
    /\ \E contentTypeFilter \in ContentTypeFilters :
          videoList' = Refiltered(videoList,
                           [videoList.filterState EXCEPT
                               !.contentTypeFilter = contentTypeFilter])
    /\ listLastOp' = "setContentTypeFilter"
    /\ UNCHANGED <<listPending, nonListVars>>

\* Pagination: handlePageChange(page), which calls setCurrentPage(page).
setCurrentPage ==
    /\ LET filterState == videoList.filterState
           totalPages == TotalPages(videoList.filteredVideos, filterState.itemsPerPage)
       IN  /\ totalPages > 1
           /\ \E currentPage \in 1..totalPages :
                 /\ currentPage # filterState.currentPage
                 /\ videoList' =
                       [videoList EXCEPT
                           !.filterState.currentPage = currentPage,
                           !.paginatedVideos =
                               paginateVideos(videoList.filteredVideos, currentPage,
                                              filterState.itemsPerPage)]
    /\ listLastOp' = "setCurrentPage"
    /\ UNCHANGED <<listPending, nonListVars>>

VideoListInit ==
    /\ videoList = initialVideoList
    /\ listPending = 0
    /\ listLastOp = "none"

VideoListNext ==
    \/ FetchVideosStart
    \/ FetchVideosOk
    \/ FetchVideosFail
    \/ setSortBy
    \/ setDurationFilter
    \/ setContentTypeFilter
    \/ setCurrentPage

(***************************************************************************)
(* The Quiz component (Quiz.tsx) and the quiz button of the Syllabus        *)
(* component (Syllabus.tsx): their handlers, which call the actions of the *)
(* quiz slice.  A handler reads quizState as it was in the render that     *)
(* created the handler.  handleGenerateQuiz awaits generateQuiz; the       *)
(* promise of generateQuiz resolves whether the request succeeded or not,  *)
(* because generateQuiz catches the failure itself.                        *)
(***************************************************************************)
Components == {"Quiz", "Syllabus"}

UploadFirstToast == "Please upload a syllabus first to generate a quiz."
FailedToast == "Failed to generate quiz."
GeneratedToast == "Quiz generated successfully!"
NavigateToast == "Quiz generated successfully! Navigate to Quiz tab to start."
OfflineToast == "Quiz loaded from offline storage!"
FallbackToast == "Using fallback quiz questions."
SelectAnswerToast == "Please select an answer before continuing."
CompletedToast == "Quiz completed! Your score: X%"
ResetToast == "Quiz reset successfully."

initialQuizView == [topics |-> 0, activeTab |-> "overview"]

QuizUi(component, handler, toast, failed, tabBefore, announced) ==
    [component |-> component, handler |-> handler, toast |-> toast,
     failed |-> failed, tabBefore |-> tabBefore, announced |-> announced]

\* const userAnswer = quizState.userAnswers[quizState.currentQuestionIndex]
userAnswer(qs) == Lookup(qs.userAnswers, qs.currentQuestionIndex)

\* Mutant: every question counts as answered.
AlwaysAnswered(qs) == TRUE

\* The test of handleNext and handleComplete: !userAnswer is false.
HasAnswer(qs) == Truthy(userAnswer(qs))

isLastQuestion(qs) == qs.currentQuestionIndex = Len(qs.questions) - 1

isFirstQuestion(qs) == qs.currentQuestionIndex = 0

\* The question view is rendered: there are questions, the quiz is not
\* completed.
QuestionShown == Len(quizState.questions) > 0 /\ ~quizState.isCompleted

\* The toast of Quiz.handleGenerateQuiz after its await, from the source of
\* the quizState the handler was created with.
SourceToast(source) ==
    IF source = "offline" THEN OfflineToast
    ELSE IF source = "fallback" THEN FallbackToast
    ELSE GeneratedToast

\* The statements after `await generateQuiz(...)` in the try block of
\* handleGenerateQuiz: the toast shown and the active tab.
AfterAwait(call, view) ==
    IF call.component = "Quiz"
    THEN [toast |-> SourceToast(call.source), activeTab |-> view.activeTab]
    ELSE [toast |-> NavigateToast, activeTab |-> "quiz"]

\* Without(s, i): the sequence s without its i-th element.
WithoutCall(calls, i) ==
    [k \in 1..(Len(calls) - 1) |-> IF k < i THEN calls[k] ELSE calls[k + 1]]

\* uploadSyllabus answered: the topics of the syllabus are in the store.
SyllabusUploaded ==
    /\ quizView.topics = 0
    /\ quizView' = [quizView EXCEPT !.topics = 1]
    /\ quizUi' = QuizUi("Syllabus", "uploadSyllabus", "", FALSE,
                        quizView.activeTab, Null)
    /\ UNCHANGED <<quizVars, quizAwait, nonQuizVars>>

\* Syllabus.handleReset: resetSyllabus().
SyllabusReset ==
    /\ quizView.topics > 0
    /\ quizView' = [quizView EXCEPT !.topics = 0]
    /\ quizUi' = QuizUi("Syllabus", "handleReset", "Syllabus reset successfully.",
                        FALSE, quizView.activeTab, Null)
    /\ UNCHANGED <<quizVars, quizAwait, nonQuizVars>>

\* handleGenerateQuiz of either component up to its await.  The button of
\* Quiz is on the screen shown without questions and is disabled while a
\* quiz is generated.
handleGenerateQuiz ==
    \E component \in Components :
        /\ component = "Quiz"
              => Len(quizState.questions) = 0 /\ ~quizState.isGenerating
        /\ IF quizView.topics = 0
           THEN /\ quizUi' = QuizUi(component, "handleGenerateQuiz", UploadFirstToast,
                                    FALSE, quizView.activeTab, Null)
                /\ UNCHANGED <<quizVars, quizAwait>>
           ELSE /\ quizPending < MaxPending
                /\ quizState' = GeneratingQuiz(quizState)
                /\ quizPending' = quizPending + 1
                /\ quizLastOp' = "generateQuiz"
                /\ quizAwait' = Append(quizAwait, [component |-> component,
                                                   source |-> quizState.source])
                /\ quizUi' = QuizUi(component, "handleGenerateQuiz", "", FALSE,
                                    quizView.activeTab, Null)
        /\ UNCHANGED <<quizView, nonQuizVars>>

\* The questions of the responses to the two components: the user's choice
\* of option makes an answer right or wrong, so one correct answer is enough.
ShownQuestion == {q \in GeneratedQuestion : q.answer = "A"}

\* The request of a call succeeds: generateQuiz stores the quiz, then the
\* handler goes on after its await.
HandleGenerateQuizOk ==
    \E i \in 1..Len(quizAwait) :
        LET after == AfterAwait(quizAwait[i], quizView)
        IN  /\ \E qs \in SeqsUpTo(ShownQuestion, MaxQuestions),
                  src \in ResponseSources :
                  quizState' = GeneratedQuiz(qs, src)
            /\ quizPending' = quizPending - 1
            /\ quizLastOp' = "generateQuiz"
            /\ quizAwait' = WithoutCall(quizAwait, i)
            /\ quizView' = [quizView EXCEPT !.activeTab = after.activeTab]
            /\ quizUi' = QuizUi(quizAwait[i].component, "handleGenerateQuiz",
                                after.toast, FALSE, quizView.activeTab, Null)
            /\ UNCHANGED nonQuizVars

\* The request of a call fails: generateQuiz catches the failure and records
\* it, its promise resolves, and the handler goes on after its await.
HandleGenerateQuizFail ==
    \E i \in 1..Len(quizAwait) :
        LET after == AfterAwait(quizAwait[i], quizView)
        IN  /\ quizState' = GenerateFailedQuiz(quizState)
            /\ quizPending' = quizPending - 1
            /\ quizLastOp' = "generateQuiz"
            /\ quizAwait' = WithoutCall(quizAwait, i)
            /\ quizView' = [quizView EXCEPT !.activeTab = after.activeTab]
            /\ quizUi' = QuizUi(quizAwait[i].component, "handleGenerateQuiz",
                                after.toast, TRUE, quizView.activeTab, Null)
            /\ UNCHANGED nonQuizVars

\* Quiz.handleAnswerSelect(option), for an option of the current question.
QuizAnswerSelect ==
    /\ QuestionShown
    /\ \E option \in CorrectAnswers :
          quizState' = AnsweredQuiz(quizState, quizState.currentQuestionIndex, option)
    /\ quizLastOp' = "submitQuizAnswer"
    /\ quizUi' = QuizUi("Quiz", "handleAnswerSelect", "", FALSE,
                        quizView.activeTab, Null)
    /\ UNCHANGED <<quizPending, quizView, quizAwait, nonQuizVars>>

\* Quiz.handleNext; on the last question it calls handleComplete, whose
\* toast shows the score of the quizState the handler was created with.
handleNext ==
    /\ QuestionShown
    /\ IF ~HasAnswer(quizState)
       THEN /\ quizUi' = QuizUi("Quiz", "handleNext", SelectAnswerToast, FALSE,
                                quizView.activeTab, Null)
            /\ UNCHANGED <<quizState, quizLastOp>>
       ELSE IF isLastQuestion(quizState)
       THEN /\ quizState' = CompletedQuiz(quizState)
            /\ quizLastOp' = "completeQuiz"
            /\ quizUi' = QuizUi("Quiz", "handleComplete", CompletedToast, FALSE,
                                quizView.activeTab, quizState.score)
       ELSE /\ quizState' = AdvancedQuiz(quizState)
            /\ quizLastOp' = "nextQuestion"
            /\ quizUi' = QuizUi("Quiz", "handleNext", "", FALSE,
                                quizView.activeTab, Null)
    /\ UNCHANGED <<quizPending, quizView, quizAwait, nonQuizVars>>

\* Quiz.handlePrevious; the button is disabled on the first question.
handlePrevious ==
    /\ QuestionShown
    /\ ~isFirstQuestion(quizState)
    /\ quizState' = RetreatedQuiz(quizState)
    /\ quizLastOp' = "previousQuestion"
    /\ quizUi' = QuizUi("Quiz", "handlePrevious", "", FALSE, quizView.activeTab, Null)
    /\ UNCHANGED <<quizPending, quizView, quizAwait, nonQuizVars>>

\* Quiz.handleReset, from 'Reset Quiz' or 'Take Quiz Again'.
handleReset ==
    /\ Len(quizState.questions) > 0
    /\ quizState' = ResetQuizState
    /\ quizLastOp' = "resetQuiz"
    /\ quizUi' = QuizUi("Quiz", "handleReset", ResetToast, FALSE,
                        quizView.activeTab, Null)
    /\ UNCHANGED <<quizPending, quizView, quizAwait, nonQuizVars>>

QuizComponentInit ==
    /\ quizView = initialQuizView
    /\ quizAwait = <<>>
    /\ quizUi = QuizUi("none", "none", "", FALSE, "overview", Null)

QuizComponentNext ==
    \/ SyllabusUploaded
    \/ SyllabusReset
    \/ handleGenerateQuiz
    \/ HandleGenerateQuizOk
    \/ HandleGenerateQuizFail
    \/ QuizAnswerSelect
    \/ handleNext
    \/ handlePrevious
    \/ handleReset

(***************************************************************************)
(* Searches.  The search bar and its suggestions call setKeyword and       *)
(* fetchVideos; the submit button is disabled while loading, the           *)
(* suggestions are not.  `search` holds the fields of the store the        *)
(* searches set, the videos of a keyword standing for the list the         *)
(* response carries for it.                                                *)
(***************************************************************************)
Suggestions == {"React tutorials", "JavaScript ES6", "Web development"}

NoResponseError == "No response from server. Please check your connection."

initialSearch ==
    [keyword |-> "", loading |-> FALSE, videos |-> <<>>, totalCount |-> 0,
     error |-> Null, inputValue |-> ""]

\* The response of get_videos to a search for keyword: its videos, their
\* number, and the keyword.
VideoResponseOf(keyword) ==
    [videos |-> <<keyword>>, total_count |-> 1, keyword |-> keyword]

\* setResults(response), the fields the searches are about.
SearchResults(st, response) ==
    [st EXCEPT !.videos = response.videos, !.totalCount = response.total_count,
               !.keyword = response.keyword, !.error = Null]

\* setError(error)
SearchError(st, error) ==
    [st EXCEPT !.error = error, !.videos = <<>>, !.totalCount = 0]

\* fetchVideos(keyword) up to its await: setLoading(true), setError('').
FetchStarted(st) == [SearchError(st, "") EXCEPT !.loading = TRUE]

\* The calls in flight after a new call for keyword, which is now the one
\* issued last.
WithNewCall(calls, keyword) ==
    Append([i \in 1..Len(calls) |-> [calls[i] EXCEPT !.latest = FALSE]],
           [keyword |-> keyword, latest |-> TRUE])

WithoutSearch(calls, i) ==
    [k \in 1..(Len(calls) - 1) |-> IF k < i THEN calls[k] ELSE calls[k + 1]]

\* What the store holds of a search for keyword that succeeded / failed,
\* when nothing else has touched it.
SucceededSearch(keyword) ==
    [done |-> TRUE, keyword |-> keyword, videos |-> VideoResponseOf(keyword).videos,
     totalCount |-> VideoResponseOf(keyword).total_count, error |-> Null]

FailedSearch(keyword) ==
    [done |-> TRUE, keyword |-> keyword, videos |-> <<>>, totalCount |-> 0,
     error |-> NoResponseError]

\* The history while the search issued last is in flight, or none was made.
NotCompleted ==
    [done |-> FALSE, keyword |-> "", videos |-> <<>>, totalCount |-> 0,
     error |-> Null]

\* The history after call completed with outcome.
Logged(call, outcome) == IF call.latest THEN outcome ELSE searchLog

\* SearchBar.handleInputChange: a keyword is typed; the input is disabled
\* while loading.
handleInputChange ==
    /\ ~search.loading
    /\ \E value \in Suggestions :
          /\ value # search.inputValue
          /\ search' = [search EXCEPT !.inputValue = value]
    /\ UNCHANGED <<searchCalls, searchLog, nonSearchVars>>

\* SearchBar.handleSubmit; the button is disabled while loading and without
\* a keyword typed in.
handleSubmit ==
    /\ ~search.loading
    /\ search.inputValue # ""
    /\ Len(searchCalls) < MaxSearches
    /\ search' = FetchStarted([search EXCEPT !.keyword = search.inputValue])
    /\ searchCalls' = WithNewCall(searchCalls, search.inputValue)
    /\ searchLog' = NotCompleted
    /\ UNCHANGED nonSearchVars

\* A suggestion is clicked: setInputValue(suggestion),
\* setKeyword(suggestion), fetchVideos(suggestion).
SuggestionClick ==
    /\ Len(searchCalls) < MaxSearches
    /\ \E suggestion \in Suggestions :
          /\ search' = FetchStarted([search EXCEPT !.keyword = suggestion,
                                                   !.inputValue = suggestion])
          /\ searchCalls' = WithNewCall(searchCalls, suggestion)
    /\ searchLog' = NotCompleted
    /\ UNCHANGED nonSearchVars

\* SearchBar.clearSearch: setInputValue(''), setKeyword('').  The keyword
\* is then no longer that of a search, in flight or completed.
clearSearch ==
    /\ search.inputValue # ""
    /\ search' = [search EXCEPT !.keyword = "", !.inputValue = ""]
    /\ searchCalls' = [i \in 1..Len(searchCalls) |->
                          [searchCalls[i] EXCEPT !.latest = FALSE]]
    /\ searchLog' = NotCompleted
    /\ UNCHANGED nonSearchVars

\* fetchVideos after its await: setResults(response.data), and in the
\* finally block setLoading(false).
FetchVideosResolved ==
    \E i \in 1..Len(searchCalls) :
        LET call == searchCalls[i]
        IN  /\ search' = [SearchResults(search, VideoResponseOf(call.keyword))
                             EXCEPT !.loading = FALSE]
            /\ searchCalls' = WithoutSearch(searchCalls, i)
            /\ searchLog' = Logged(call, SucceededSearch(call.keyword))
            /\ UNCHANGED nonSearchVars

\* fetchVideos: the catch block, setError(...), then setLoading(false).
FetchVideosRejected ==
    \E i \in 1..Len(searchCalls) :
        LET call == searchCalls[i]
        IN  /\ search' = [SearchError(search, NoResponseError)
                             EXCEPT !.loading = FALSE]
            /\ searchCalls' = WithoutSearch(searchCalls, i)
            /\ searchLog' = Logged(call, FailedSearch(call.keyword))
            /\ UNCHANGED nonSearchVars

SearchInit ==
    /\ search = initialSearch
    /\ searchCalls = <<>>
    /\ searchLog = NotCompleted

SearchNext ==
    \/ handleInputChange
    \/ handleSubmit
    \/ SuggestionClick
    \/ clearSearch
    \/ FetchVideosResolved
    \/ FetchVideosRejected

(***************************************************************************)
(* The transcription modals of the video cards.  Every VideoCard renders   *)
(* its own TranscriptionModal for its own video; all of them read the one  *)
(* transcriptionState of the store.  A modal covers the page, so one is    *)
(* open at a time.  The effect of the open modal runs as soon as its       *)
(* condition holds, before any other step.                                 *)
(***************************************************************************)
CardVideos == {"a", "b"}

\* What /transcribe answers for a video, and /summarize_transcription for
\* its transcription.
TranscriptOf(video) == IF video = "a" THEN "transcript a" ELSE "transcript b"

SummaryOf(video) == IF video = "a" THEN "summary a" ELSE "summary b"

\* The video a transcription is of.
VideoOf(transcription) ==
    CHOOSE video \in CardVideos : TranscriptOf(video) = transcription

noCardCalls == [transcribe |-> <<>>, summarize |-> <<>>]

WithoutRequest(calls, i) ==
    [k \in 1..(Len(calls) - 1) |-> IF k < i THEN calls[k] ELSE calls[k + 1]]

\* isOpen && video.video_url && !transcription && !isTranscribing, for the
\* modal that is open.
CardEffectCondition ==
    /\ Truthy(cardModal)
    /\ ~Truthy(cardState.transcription)
    /\ ~cardState.isTranscribing

\* VideoCard: the Transcribe button, setIsModalOpen(true).
OpenCard ==
    /\ cardModal = ""
    /\ Len(cardCalls.transcribe) < MaxTranscribes
    /\ \E video \in CardVideos : cardModal' = video
    /\ UNCHANGED <<cardState, cardCalls, cardLog, nonCardVars>>

\* The effect of the open modal: transcribeVideo(video.video_url) up to its
\* await.
CardEffect ==
    /\ CardEffectCondition
    /\ cardState' = TranscribeStart(cardState)
    /\ cardCalls' = [cardCalls EXCEPT !.transcribe = Append(@, cardModal)]
    /\ cardLog' = [cleared |-> FALSE]
    /\ UNCHANGED <<cardModal, nonCardVars>>

\* transcribeVideo: the response of a request arrives.
CardTranscribed ==
    /\ ~CardEffectCondition
    /\ \E i \in 1..Len(cardCalls.transcribe) :
          LET video == cardCalls.transcribe[i]
          IN  /\ cardState' = [cardState EXCEPT
                     !.transcription = TranscriptOf(video),
                     !.video_title = video, !.video_url = video,
                     !.isTranscribing = FALSE, !.transcriptionError = Null]
              /\ cardCalls' = [cardCalls EXCEPT
                     !.transcribe = WithoutRequest(@, i)]
    /\ UNCHANGED <<cardModal, cardLog, nonCardVars>>

\* transcribeVideo: a request fails.
CardTranscribeFailed ==
    /\ ~CardEffectCondition
    /\ \E i \in 1..Len(cardCalls.transcribe), message \in TranscribeErrors :
          /\ cardState' = [cardState EXCEPT
                 !.isTranscribing = FALSE, !.transcriptionError = message]
          /\ cardCalls' = [cardCalls EXCEPT !.transcribe = WithoutRequest(@, i)]
    /\ UNCHANGED <<cardModal, cardLog, nonCardVars>>

\* handleSummarize of the open modal: summarizeTranscription(transcription)
\* up to its await.
CardSummarize ==
    /\ ~CardEffectCondition
    /\ Truthy(cardModal)
    /\ Truthy(cardState.transcription)
    /\ ~cardState.isSummarizing
    /\ ~Truthy(cardState.summary) \/ Truthy(cardState.summarizationError)
    /\ Len(cardCalls.summarize) < MaxTranscribes
    /\ cardState' = [cardState EXCEPT
           !.isSummarizing = TRUE, !.summarizationError = Null]
    /\ cardCalls' = [cardCalls EXCEPT
           !.summarize = Append(@, VideoOf(cardState.transcription))]
    /\ UNCHANGED <<cardModal, cardLog, nonCardVars>>

\* summarizeTranscription: the response of a request arrives.
CardSummarized ==
    /\ ~CardEffectCondition
    /\ \E i \in 1..Len(cardCalls.summarize) :
          /\ cardState' = [cardState EXCEPT
                 !.summary = SummaryOf(cardCalls.summarize[i]),
                 !.isSummarizing = FALSE, !.summarizationError = Null]
          /\ cardCalls' = [cardCalls EXCEPT !.summarize = WithoutRequest(@, i)]
    /\ UNCHANGED <<cardModal, cardLog, nonCardVars>>

\* summarizeTranscription: a request fails.
CardSummarizeFailed ==
    /\ ~CardEffectCondition
    /\ \E i \in 1..Len(cardCalls.summarize), message \in TranscribeErrors :
          /\ cardState' = [cardState EXCEPT
                 !.isSummarizing = FALSE, !.summarizationError = message]
          /\ cardCalls' = [cardCalls EXCEPT !.summarize = WithoutRequest(@, i)]
    /\ UNCHANGED <<cardModal, cardLog, nonCardVars>>

\* handleClose of the open modal: clearTranscription(), onClose().
CloseCard ==
    /\ ~CardEffectCondition
    /\ Truthy(cardModal)
    /\ cardState' = initialTranscriptionState
    /\ cardModal' = ""
    /\ cardLog' = [cleared |-> TRUE]
    /\ UNCHANGED <<cardCalls, nonCardVars>>

CardsInit ==
    /\ cardModal = ""
    /\ cardState = initialTranscriptionState
    /\ cardCalls = noCardCalls
    /\ cardLog = [cleared |-> FALSE]

CardsNext ==
    \/ OpenCard
    \/ CardEffect
    \/ CardTranscribed
    \/ CardTranscribeFailed
    \/ CardSummarize
    \/ CardSummarized
    \/ CardSummarizeFailed
    \/ CloseCard

(***************************************************************************)
(* Learning mode: the flashcard slice of the store (useVideoStore.ts) and  *)
(* the LearningMode component.  Card indices start at 0 as in the code.    *)
(***************************************************************************)
Ratings == {"known", "difficult"}

GenerateLearningModeError == "Failed to generate learning mode. Please try again."

initialLearningModeState ==
    [flashcards |-> <<>>, currentCardIndex |-> 0, showAnswer |-> FALSE,
     cardProgress |-> <<>>, isGenerating |-> FALSE, error |-> Null,
     video_id |-> ""]

\* response.data.flashcards: the n cards the backend made for the video.
FlashcardsOf(video, n) == [k \in 1..n |-> <<video, k>>]

NoTimer == [target |-> 0, stale |-> FALSE]

Stale(timers) == [k \in 1..Len(timers) |-> [timers[k] EXCEPT !.stale = TRUE]]

WithoutLearnCall(calls, i) ==
    [k \in 1..(Len(calls) - 1) |-> IF k < i THEN calls[k] ELSE calls[k + 1]]

AnyIndex(index, flashcards) == TRUE

IndexInDeck(index, flashcards) == index >= 0 /\ index < Len(flashcards)

SetCurrentCard(st, index) ==
    IF IndexInDeck(index, st.flashcards)
    THEN [st EXCEPT !.currentCardIndex = index, !.showAnswer = FALSE]
    ELSE st

WithRating(cardProgress, index, rating) ==
    [i \in (DOMAIN cardProgress) \cup {index} |->
        IF i = index THEN rating ELSE cardProgress[i]]

\* The component shows the deck: not the spinner, the error or the
\* invitation to generate one.
DeckShown ==
    /\ ~learningModeState.isGenerating
    /\ ~Truthy(learningModeState.error)
    /\ Len(learningModeState.flashcards) # 0

isLastCard ==
    learningModeState.currentCardIndex = Len(learningModeState.flashcards) - 1

isFirstCard == learningModeState.currentCardIndex = 0

generateLearningMode ==
    \E video \in CardVideos :
        /\ Len(learnCalls) < MaxGenerations
        /\ learningModeState' =
              [learningModeState EXCEPT !.isGenerating = TRUE, !.error = Null]
        /\ learnCalls' = Append(learnCalls, video)
        /\ learnLog' = NoTimer
        /\ UNCHANGED <<learnTimers, nonLearnVars>>

GenerateLearningModeOk ==
    \E i \in 1..Len(learnCalls), n \in 0..MaxCards :
        /\ learningModeState' =
              [flashcards |-> FlashcardsOf(learnCalls[i], n),
               currentCardIndex |-> 0, showAnswer |-> FALSE,
               cardProgress |-> <<>>, isGenerating |-> FALSE, error |-> Null,
               video_id |-> learnCalls[i]]
        /\ learnCalls' = WithoutLearnCall(learnCalls, i)
        /\ learnTimers' = Stale(learnTimers)
        /\ learnLog' = NoTimer
        /\ UNCHANGED nonLearnVars

GenerateLearningModeFail ==
    \E i \in 1..Len(learnCalls) :
        /\ learningModeState' =
              [learningModeState EXCEPT !.isGenerating = FALSE,
                                        !.error = GenerateLearningModeError]
        /\ learnCalls' = WithoutLearnCall(learnCalls, i)
        /\ learnLog' = NoTimer
        /\ UNCHANGED <<learnTimers, nonLearnVars>>

\* The Show Answer button, rendered while the answer is hidden.
toggleAnswer ==
    /\ DeckShown
    /\ ~learningModeState.showAnswer
    /\ learningModeState' =
          [learningModeState EXCEPT !.showAnswer = ~learningModeState.showAnswer]
    /\ learnLog' = NoTimer
    /\ UNCHANGED <<learnCalls, learnTimers, nonLearnVars>>

\* The rating buttons, rendered while the answer is shown.
rateCard(rating) ==
    LET currentIndex == learningModeState.currentCardIndex
        advances == currentIndex < Len(learningModeState.flashcards) - 1
    IN /\ DeckShown
       /\ learningModeState.showAnswer
       /\ advances => Len(learnTimers) < MaxTimers
       /\ learningModeState' =
             [learningModeState EXCEPT
                 !.cardProgress =
                     WithRating(learningModeState.cardProgress,
                                currentIndex, rating)]
       /\ learnTimers' =
             IF advances
             THEN Append(learnTimers,
                         [target |-> currentIndex + 1, stale |-> FALSE])
             ELSE learnTimers
       /\ learnLog' = NoTimer
       /\ UNCHANGED <<learnCalls, nonLearnVars>>

\* The callback of setTimeout in rateCard; the timers have one delay and
\* fire in the order they were started.
AdvanceTimer ==
    /\ Len(learnTimers) > 0
    /\ learningModeState' =
          SetCurrentCard(learningModeState, Head(learnTimers).target)
    /\ learnTimers' = Tail(learnTimers)
    /\ learnLog' = Head(learnTimers)
    /\ UNCHANGED <<learnCalls, nonLearnVars>>

nextCard ==
    /\ DeckShown
    /\ ~isLastCard
    /\ learningModeState' =
          IF learningModeState.currentCardIndex
                < Len(learningModeState.flashcards) - 1
          THEN SetCurrentCard(learningModeState,
                              learningModeState.currentCardIndex + 1)
          ELSE learningModeState
    /\ learnLog' = NoTimer
    /\ UNCHANGED <<learnCalls, learnTimers, nonLearnVars>>

prevCard ==
    /\ DeckShown
    /\ ~isFirstCard
    /\ learningModeState' =
          IF learningModeState.currentCardIndex > 0
          THEN SetCurrentCard(learningModeState,
                              learningModeState.currentCardIndex - 1)
          ELSE learningModeState
    /\ learnLog' = NoTimer
    /\ UNCHANGED <<learnCalls, learnTimers, nonLearnVars>>

\* One of the dots under the card.
SelectCard ==
    \E index \in 0..(Len(learningModeState.flashcards) - 1) :
        /\ DeckShown
        /\ learningModeState' = SetCurrentCard(learningModeState, index)
        /\ learnLog' = NoTimer
        /\ UNCHANGED <<learnCalls, learnTimers, nonLearnVars>>

\* Try Again on the error view, Exit and Start New Session on the deck.
resetLearningMode ==
    /\ ~learningModeState.isGenerating
    /\ Truthy(learningModeState.error) \/ Len(learningModeState.flashcards) # 0
    /\ learningModeState' = initialLearningModeState
    /\ learnTimers' = Stale(learnTimers)
    /\ learnLog' = NoTimer
    /\ UNCHANGED <<learnCalls, nonLearnVars>>

LearningInit ==
    /\ learningModeState = initialLearningModeState
    /\ learnCalls = <<>>
    /\ learnTimers = <<>>
    /\ learnLog = NoTimer

LearningNext ==
    \/ generateLearningMode
    \/ GenerateLearningModeOk
    \/ GenerateLearningModeFail
    \/ toggleAnswer
    \/ \E rating \in Ratings : rateCard(rating)
    \/ AdvanceTimer
    \/ nextCard
    \/ prevCard
    \/ SelectCard
    \/ resetLearningMode

(***************************************************************************)
(* Initial state and specifications.                                       *)
(***************************************************************************)
QuizInit ==
    /\ quizState = initialQuizState
    /\ quizPending = 0
    /\ quizLastOp = "none"

Init ==
    /\ QuizInit
    /\ StudyInit
    /\ OfflineInit
    /\ PipelineInit
    /\ TranscriptionInit
    /\ ThemeInit
    /\ VideoListInit
    /\ QuizComponentInit
    /\ SearchInit
    /\ CardsInit
    /\ LearningInit

Next ==
    \/ QuizNext
    \/ StudyNext
    \/ OfflineNext
    \/ PipelineNext
    \/ TranscriptionNext
    \/ ThemeNext
    \/ VideoListNext
    \/ QuizComponentNext
    \/ StudyQuizNext
    \/ SearchNext
    \/ CardsNext
    \/ LearningNext

QuizSpec == Init /\ [][QuizNext]_vars

StudySpec == Init /\ [][StudyNext]_vars

\* A user who keeps using every control that stays available, and requests
\* that are all answered.
StudyFlowFairness ==
    /\ WF_vars(handleSubjectChange)
    /\ WF_vars(handleUnitToggle)
    /\ WF_vars(generateStudyMaterials)
    /\ WF_vars(generateQuiz)
    /\ WF_vars(LoadUnitsOk \/ LoadUnitsFail)
    /\ WF_vars(GenerateStudyMaterialsOk \/ GenerateStudyMaterialsFail)
    /\ WF_vars(GenerateQuizOk \/ GenerateQuizFail)

FairStudyFlowSpec == Init /\ [][StudyFlowNext]_vars /\ StudyFlowFairness

StudyQuizSpec == Init /\ [][StudyQuizNext]_vars

OfflineSpec == Init /\ [][OfflineNext]_vars

PipelineSpec == Init /\ [][PipelineNext]_vars

\* The pool runs every submitted worker, every call of a tier returns or is
\* timed out, and the selector and the dispatcher go on when they can: each
\* step of the pipeline is taken if it stays possible.  Nothing obliges a
\* client to send a request.
PipelineFairness ==
    /\ WF_vars(Dispatch)
    /\ \A c \in Categories :
          WF_vars(WorkerFetch(c)) /\ WF_vars(WorkerReport(c) \/ WorkerFail(c))
    /\ WF_vars(Merge)
    /\ WF_vars(BeginTier)
    /\ WF_vars(TierReturns \/ TierFails)
    /\ WF_vars(Deliver)

FairPipelineSpec == Init /\ [][PipelineNext]_vars /\ PipelineFairness

TranscriptionSpec == Init /\ [][TranscriptionNext]_vars

ThemeSpec == Init /\ [][ThemeNext]_vars

VideoListSpec == Init /\ [][VideoListNext]_vars

QuizComponentSpec == Init /\ [][QuizComponentNext]_vars

SearchSpec == Init /\ [][SearchNext]_vars

CardsSpec == Init /\ [][CardsNext]_vars

\* A timer that setTimeout has started fires.
LearningSpec == Init /\ [][LearningNext]_vars /\ WF_vars(AdvanceTimer)

Spec == Init /\ [][Next]_vars

(***************************************************************************)
(* Claims about the quiz slice.                                            *)
(***************************************************************************)
\* The questions whose recorded answer equals the question's answer.
MatchedQuestions(qs) ==
    {i \in 0..(Len(qs.questions) - 1) :
        i \in DOMAIN qs.userAnswers /\ qs.userAnswers[i] = qs.questions[i + 1].answer}

\* score * N = 100 * K for a score kept as a fraction.
ScoreIs(score, K, N) ==
    IF N > 0 THEN score.num * N = 100 * K * score.den ELSE score = Zero

\* C4: after completeQuiz on N questions of which K have a recorded answer equal
\* to the question's answer, the stored score satisfies score * N = 100 * K
\* when N > 0 and is 0 when N = 0; a question with no recorded answer counts as
\* incorrect.
C4_ScoreIsPercentCorrect ==
    quizLastOp = "completeQuiz" =>
        /\ quizState.isCompleted
        /\ quizState.score.den > 0
        /\ ScoreIs(quizState.score, Cardinality(MatchedQuestions(quizState)),
                   Len(quizState.questions))

\* C4 witness: a completed two-question quiz with one correct answer, one
\* question without a recorded answer, and the score 50.
C4_Witness ==
    /\ quizLastOp = "completeQuiz"
    /\ Len(quizState.questions) = 2
    /\ Cardinality(MatchedQuestions(quizState)) = 1
    /\ DOMAIN quizState.userAnswers # AnswerIndex
    /\ quizState.score = [num |-> 50, den |-> 1]

\* C6: a completeQuiz that directly follows a completeQuiz leaves the whole
\* quiz slice (score, isCompleted and every other field) as it was.
C6_CompleteQuizIdempotent ==
    [][(quizLastOp = "completeQuiz" /\ quizLastOp' = "completeQuiz")
          => quizState' = quizState]_vars

\* C6 witness: a completed quiz with a non-zero score, on which the second
\* completeQuiz is evaluated.
C6_Witness ==
    /\ quizLastOp = "completeQuiz"
    /\ quizState.isCompleted
    /\ quizState.score.num > 0
    /\ quizState.score.num < 100

(***************************************************************************)
(* Claims about the Study component.                                       *)
(***************************************************************************)
\* A step in which generateStudyMaterials or generateQuiz is invoked (the part
\* of the handler before its await runs).
GenerateInvoked ==
    /\ studyTrace'.handler \in {"generateStudyMaterials", "generateQuiz"}
    /\ studyTrace'.toast \notin {"Study materials generated successfully!",
                                 "Failed to generate study materials",
                                 "Quiz generated successfully!",
                                 "Failed to generate quiz"}

\* C5: generateStudyMaterials or generateQuiz invoked with no unit selected
\* reports 'Please select at least one unit', sends no request and leaves
\* every field of the component (studyMaterials, quizQuestions, activeStep,
\* the loading flags) as it was.
C5_EmptyUnitsRejected ==
    [][(GenerateInvoked /\ study.selectedUnits = <<>>)
          => /\ study' = study
             /\ studyPending' = studyPending
             /\ studyTrace'.posts = <<>>
             /\ studyTrace'.toast = SelectUnitToast]_vars

\* C5 witness: generateQuiz was invoked with no unit selected and was
\* rejected, while materials generated earlier are still in place.
C5_Witness ==
    /\ studyTrace = Trace("generateQuiz", SelectUnitToast, <<>>)
    /\ study.selectedUnits = <<>>
    /\ study.studyMaterials # {}
    /\ study.activeStep = 2
    /\ studyPending.quiz = <<>>

\* C8: generateStudyMaterials first requests the enhanced endpoint, and the
\* basic endpoint is requested only by the handler's catch branch, after the
\* enhanced request failed.
C8_EnhancedEndpointFirst ==
    /\ (studyTrace.handler = "generateStudyMaterials" /\ studyTrace.toast = ""
           /\ studyTrace.posts # <<>>)
          => studyTrace.posts = <<EnhancedEndpoint>>
    /\ BasicEndpoint \in Range(studyTrace.posts)
          => studyTrace.toast = "Failed to generate study materials"

(***************************************************************************)
(* Claims about the offline storage and the OfflineManager.                *)
(***************************************************************************)
\* A quiz was loaded through the Load button in the last step.
QuizLoaded ==
    offlineTrace.handler = "handleRetryQuiz" /\ offlineTrace.toast = LoadedToast

\* C7 (as stated): the question set reloaded through OfflineManager's Load
\* equals the persisted original field for field.
C7_RoundTripIdentical ==
    QuizLoaded => offlineTrace.loaded = offlineStore[offlineTrace.key]

\* C7 (amended): the reloaded set has the original's length and, question by
\* question, the original's fields, except that a missing or empty difficulty
\* is reloaded as 'medium' and a missing or empty type as 'mcq'; a set whose
\* questions all carry a difficulty and a type is reloaded field for field.
C7_RoundTripUpToDefaults ==
    QuizLoaded =>
        LET original == offlineStore[offlineTrace.key]
            loaded == offlineTrace.loaded
            Missing(v) == v \in {Undefined, Null, ""}
        IN  /\ Len(loaded) = Len(original)
            /\ \A i \in 1..Len(original) :
                  /\ loaded[i].question = original[i].question
                  /\ loaded[i].answer = original[i].answer
                  /\ loaded[i].difficulty =
                        IF Missing(original[i].difficulty) THEN "medium"
                        ELSE original[i].difficulty
                  /\ loaded[i].type =
                        IF Missing(original[i].type) THEN "mcq"
                        ELSE original[i].type
            /\ (\A i \in 1..Len(original) :
                    ~Missing(original[i].difficulty) /\ ~Missing(original[i].type))
                  => loaded = original

\* C7 witness: a stored question with a difficulty and a type was reloaded
\* through the Load button.
C7_Witness ==
    /\ QuizLoaded
    /\ \E i \in 1..Len(offlineTrace.loaded) :
          /\ offlineStore[offlineTrace.key][i].difficulty = "easy"
          /\ offlineStore[offlineTrace.key][i].type = "true_false"
          /\ offlineTrace.loaded[i] = offlineStore[offlineTrace.key][i]

(***************************************************************************)
(* Claims about the fallback selector and the parallel dispatcher.         *)
(***************************************************************************)
\* The attempts of one unit follow the chain: no attempt but the last one
\* produced an item.
OnlyLastProduced(attempts) ==
    \A k \in 1..(Len(attempts) - 1) : attempts[k] # "items"

\* C1: the tiers are attempted in the order 1, 2, 3, 4; tier k+1 is attempted
\* only when every tier 1..k was attempted and ended empty or failed, and a
\* unit is settled only by a tier that produced an item in some category or
\* by the last tier.
C1_TiersInOrderUntilNonEmpty ==
    /\ Len(pipe.attempts) < NumTiers
    /\ pipe.tier # 0 => pipe.tier = Len(pipe.attempts) + 1
    /\ \A k \in 1..Len(pipe.attempts) : pipe.attempts[k] # "items"
    /\ Len(pipe.history) = Len(pipe.materials)
    /\ \A u \in 1..Len(pipe.history) :
          LET attempts == pipe.history[u]
              last == attempts[Len(attempts)]
          IN  /\ Len(attempts) \in 1..NumTiers
              /\ OnlyLastProduced(attempts)
              /\ last # "items" => Len(attempts) = NumTiers
              /\ last = "items" <=> ~IsEmptyEntry(pipe.materials[u])

\* C1 witness: a unit was settled by tier 3, which returned articles only,
\* after tier 1 and tier 2 produced nothing.
C1_Witness ==
    /\ pipe.phase = "responded"
    /\ pipe.history = << <<"none", "none", "items">> >>
    /\ pipe.materials[1]["articles"] > 0
    /\ pipe.materials[1]["videos"] = 0
    /\ pipe.materials[1]["notes"] = 0

\* C2: a request with a non-empty unit list never ends in an error; its
\* response holds one entry per unit, each with the three categories; and
\* the step in which a tier fails leaves the request running (or answered
\* without an error), like a tier that returned nothing.
C2_AlwaysValidResult ==
    /\ pipe.status # "error"
    /\ pipe.status = "validation_error" => pipe.units = 0
    /\ pipeLog \in FailureKinds => pipe.phase \in {"running", "responded"}
    /\ (pipe.phase = "responded" /\ pipe.units > 0) =>
          /\ pipe.status = "ok"
          /\ Len(pipe.materials) = pipe.units
          /\ \A u \in 1..pipe.units :
                /\ DOMAIN pipe.materials[u] = Categories
                /\ \A c \in Categories : pipe.materials[u][c] \in 0..NumSites

\* C2 witness: the last tier failed after the other three produced nothing,
\* and the request was answered with a valid, empty entry.
C2_Witness ==
    /\ pipeLog \in FailureKinds
    /\ pipe.phase = "responded"
    /\ pipe.status = "ok"
    /\ pipe.history = << <<"none", "none", "none", "none">> >>
    /\ pipe.materials = <<EmptyEntry>>

\* C3: in a response, the entry of a unit is empty if and only if all four
\* tiers were attempted for it and none produced an item.
C3_EmptyIffAllTiersEmpty ==
    (pipe.phase = "responded" /\ pipe.status = "ok") =>
        \A u \in 1..pipe.units :
            IsEmptyEntry(pipe.materials[u])
                <=> /\ Len(pipe.history[u]) = NumTiers
                    /\ \A k \in 1..NumTiers : pipe.history[u][k] # "items"

\* C3 witness: the explicit empty response, after four tiers without items.
C3_Witness ==
    /\ pipe.phase = "responded"
    /\ pipe.status = "ok"
    /\ pipeLog = ""
    /\ Len(pipe.history[1]) = NumTiers
    /\ IsEmptyEntry(pipe.materials[1])

\* C9: the merged result exists only once all three workers have reported or
\* failed, and its entry for each category is what that category's worker
\* returned (nothing for a worker that failed).
C9_MergedIsWhatWorkersReturned ==
    merged.valid =>
        \A c \in Categories :
            \/ workers[c].status = "done" /\ merged.entry[c] = workers[c].acc
            \/ workers[c].status = "failed" /\ merged.entry[c] = 0

\* C9 witness: a merge of three different outcomes.
C9_Witness ==
    /\ merged.valid
    /\ workers["articles"].status = "done" /\ workers["articles"].acc = 1
    /\ workers["videos"].status = "failed"
    /\ workers["notes"].status = "done" /\ workers["notes"].acc = 0
    /\ merged.entry["articles"] = 1

\* C10: every request that is being served is eventually answered; every
\* worker that runs eventually reports or fails; every tier attempt ends; and
\* no unit sees more than four tier attempts.
C10_RequestCompletes ==
    /\ [](Len(pipe.attempts) <= NumTiers /\ pipe.tier <= NumTiers)
    /\ (pipe.phase = "running") ~> (pipe.phase = "responded")
    /\ (pipe.tier # 0) ~> (pipe.tier = 0)
    /\ \A c \in Categories :
          (workers[c].status \in {"running", "hung"})
              ~> (workers[c].status \in {"done", "failed"})

\* C10 witness: a request is answered although a worker of tier 1 failed or
\* was timed out.
C10_Witness ==
    /\ pipe.phase = "responded"
    /\ pipe.status = "ok"
    /\ workers["videos"].status = "failed"
    /\ workers["articles"].status = "done"

(***************************************************************************)
(* Claims about the transcription modal.                                   *)
(***************************************************************************)
\* C11: a transcription request that follows a failure is issued by the
\* Retry button only: the effect of the modal issues no request while an
\* error is recorded.
C11_NoAutomaticRetry ==
    (transTrace.handler = "useEffect" /\ transTrace.requested)
        => transTrace.errorBefore = Null

(***************************************************************************)
(* Claims about the theme.                                                 *)
(***************************************************************************)
\* C12: once the effect that follows setTheme(t) has run, the value stored
\* under 'theme' is t; and a ThemeProvider that mounts starts with the theme
\* last given to setTheme, or with 'system' when nothing is stored.
C12_ThemePersists ==
    /\ (provider.mounted /\ ~ThemeEffectDue) => themeStore = provider.theme
    /\ (provider.mounted /\ ~ThemeEffectDue /\ themeTrace.lastSet # Null)
          => themeStore = themeTrace.lastSet
    /\ themeTrace.handler = "mount" =>
          /\ themeTrace.storedBefore = Null => provider.theme = "system"
          /\ themeTrace.lastSet # Null => provider.theme = themeTrace.lastSet

\* C12 witness: a provider has just mounted with the dark theme that was set
\* before the application was closed.
C12_Witness ==
    /\ themeTrace.handler = "mount"
    /\ themeTrace.lastSet = "dark"
    /\ themeStore = "dark"
    /\ provider.theme = "dark"

(***************************************************************************)
(* Claims about the OfflineManager component: deletion.                    *)
(***************************************************************************)
\* C13: when 'Quiz deleted successfully' has been reported for a quiz, that
\* quiz is no longer in the offline store (so the list loaded next does not
\* show it).
C13_DeletedQuizIsGone ==
    (offlineTrace.handler = "handleDeleteQuiz"
        /\ offlineTrace.toast = "Quiz deleted successfully")
        => offlineTrace.key \notin DOMAIN offlineStore

(***************************************************************************)
(* Claims about the video list.                                            *)
(***************************************************************************)
\* The page the list shows is the page filterState names.
ShowsCurrentPage ==
    videoList.paginatedVideos =
        paginateVideos(videoList.filteredVideos, videoList.filterState.currentPage,
                       videoList.filterState.itemsPerPage)

\* C14: after every action of the video list, paginatedVideos is the slice of
\* filteredVideos for the page filterState.currentPage; after setResults
\* that page is page 1.
C14_PageMatchesCurrentPage ==
    /\ ShowsCurrentPage
    /\ listLastOp = "setResults" => videoList.filterState.currentPage = 1

(***************************************************************************)
(* Claims about the Quiz and Syllabus components.                          *)
(***************************************************************************)
\* C15: when the generate_quiz request of a handleGenerateQuiz call has
\* failed, the component shows 'Failed to generate quiz.', no success toast,
\* and the active tab stays what it was.
C15_FailureReportedAsFailure ==
    quizUi.failed =>
        /\ quizUi.toast = FailedToast
        /\ quizView.activeTab = quizUi.tabBefore

\* C16: the score announced by 'Quiz completed! Your score: X%' is the score
\* completeQuiz has stored.
C16_AnnouncedScoreIsStoredScore ==
    quizUi.toast = CompletedToast => quizUi.announced = quizState.score

\* The questions with a recorded answer.
AnsweredQuestions(qs) ==
    {i \in 0..(Len(qs.questions) - 1) : Truthy(Lookup(qs.userAnswers, i))}

\* C17: through the Quiz component, every question before the current one
\* has a recorded answer, a completed quiz has a recorded answer for every
\* question, and the current index of a quiz with questions is one of
\* 0..N-1.
C17_NoQuestionSkipped ==
    LET N == Len(quizState.questions)
    IN  /\ 0..(quizState.currentQuestionIndex - 1) \subseteq AnsweredQuestions(quizState)
        /\ quizState.isCompleted => AnsweredQuestions(quizState) = 0..(N - 1)
        /\ N > 0 => quizState.currentQuestionIndex \in 0..(N - 1)
        /\ N = 0 => quizState.currentQuestionIndex = 0
        /\ quizUi.toast = SelectAnswerToast => ~Truthy(userAnswer(quizState))

\* C17 witness: a quiz of two questions was completed, one after the other
\* answered.
C17_Witness ==
    /\ quizUi.handler = "handleComplete"
    /\ quizState.isCompleted
    /\ Len(quizState.questions) = 2
    /\ quizState.currentQuestionIndex = 1
    /\ AnsweredQuestions(quizState) = {0, 1}

(***************************************************************************)
(* Claims about the quiz of the Study component.                           *)
(***************************************************************************)
\* The ids of the current quiz are unique within the set.
UniqueIds ==
    \A i, j \in 1..Len(study.quizQuestions) :
        study.quizQuestions[i] = study.quizQuestions[j] => i = j

\* Every question of the current quiz has a recorded answer.
AllAnswered ==
    \A i \in 1..Len(study.quizQuestions) :
        study.quizQuestions[i] \in DOMAIN study.userAnswers

\* C18: with ids unique within the quiz, submitQuiz has sent the evaluation
\* request only with every question of the quiz answered, and with every
\* question answered submitQuiz does not find the answers incomplete.
C18_SubmitOnlyWhenAllAnswered ==
    UniqueIds =>
        /\ (studyTrace.handler = "submitQuiz"
               /\ studyTrace.posts = <<EvaluateEndpoint>>) => AllAnswered
        /\ AllAnswered
             => Cardinality(DOMAIN study.userAnswers) = Len(study.quizQuestions)

\* C18 witness: the request was sent for a quiz of two answered questions.
C18_Witness ==
    /\ studyTrace.handler = "submitQuiz"
    /\ studyTrace.posts = <<EvaluateEndpoint>>
    /\ Len(study.quizQuestions) = 2
    /\ UniqueIds
    /\ AllAnswered

\* C19: with questions in quizQuestions, currentQuestionIndex is an index of
\* quizQuestions.
C19_CurrentQuestionIndexValid ==
    Len(study.quizQuestions) > 0
        => study.currentQuestionIndex \in 0..(Len(study.quizQuestions) - 1)

\* C20: a step of the Study component other than resetStudy and a subject
\* change does not decrease activeStep.
C20_ActiveStepNeverDecreases ==
    [][studyTrace'.handler \in {"resetStudy", "handleSubjectChange"}
          \/ study'.activeStep >= study.activeStep]_vars

(***************************************************************************)
(* Claims about the flow of the Study component.                           *)
(***************************************************************************)
\* The Study Materials step: materials generated, no quiz request in flight.
AtStudyMaterials ==
    /\ study.activeStep = 2
    /\ study.studyMaterials # {}
    /\ studyPending.quiz = <<>>

\* The Take Quiz step with a generated quiz.
AtTakeQuiz == study.activeStep = 3 /\ Len(study.quizQuestions) > 0

\* C21: without Reset, a user at the Study Materials step with no quiz
\* request in flight, who keeps using the controls available, gets to the
\* Take Quiz step with a generated quiz.
C21_QuizStepReachedFromMaterials == AtStudyMaterials ~> AtTakeQuiz

(***************************************************************************)
(* Claims about overlapping searches.                                      *)
(***************************************************************************)
\* C22: once every search has completed, the store's videos, keyword,
\* totalCount and error are those of the search issued last.
C22_LastIssuedSearchWins ==
    (Len(searchCalls) = 0 /\ searchLog.done) =>
        /\ search.videos = searchLog.videos
        /\ search.keyword = searchLog.keyword
        /\ search.totalCount = searchLog.totalCount
        /\ search.error = searchLog.error

\* C23: loading is true exactly when a fetchVideos request is in flight.
C23_LoadingIffInFlight == search.loading <=> Len(searchCalls) > 0

(***************************************************************************)
(* Claims about the transcription modals of the video cards.               *)
(***************************************************************************)
\* C24: while the modal of a video is open, the transcription in the store
\* is empty or that video's, and so is the summary; and after
\* clearTranscription the transcriptionState stays as cleared until a
\* transcribeVideo is started.
C24_ModalShowsItsOwnVideo ==
    /\ Truthy(cardModal) =>
          /\ cardState.transcription \in {"", TranscriptOf(cardModal)}
          /\ cardState.summary \in {"", SummaryOf(cardModal)}
    /\ cardLog.cleared => cardState = initialTranscriptionState

(***************************************************************************)
(* Claims about learning mode.                                             *)
(***************************************************************************)
CurrentCardIndexValid ==
    IF Len(learningModeState.flashcards) = 0
    THEN learningModeState.currentCardIndex = 0
    ELSE learningModeState.currentCardIndex
            \in 0..(Len(learningModeState.flashcards) - 1)

\* What a call of rateCard has done when it returns.
RateCardRecords ==
    \A rating \in Ratings :
        rateCard(rating) =>
            LET i == learningModeState.currentCardIndex
            IN /\ learningModeState'.cardProgress[i] = rating
               /\ learningModeState'.currentCardIndex = i
               /\ learningModeState'.flashcards = learningModeState.flashcards
               /\ isLastCard => learnTimers' = learnTimers
               /\ ~isLastCard =>
                     learnTimers' =
                         Append(learnTimers, [target |-> i + 1, stale |-> FALSE])

AdvancePending(n, stale) ==
    \E k \in 1..Len(learnTimers) :
        learnTimers[k] = [target |-> n, stale |-> stale]

\* C25: rateCard records the rating under the index of the current card and
\* leaves the index alone; when the card is not the last one it schedules an
\* advance to the next index, and that index becomes the current one with
\* the answer hidden unless the deck is reset or regenerated before; the
\* current index is at all times an index of the deck, 0 when it is empty.
C25_RateCardAdvances ==
    /\ []CurrentCardIndexValid
    /\ [][RateCardRecords]_vars
    /\ \A n \in 1..MaxCards :
          AdvancePending(n, FALSE) ~>
              \/ /\ learningModeState.currentCardIndex = n
                 /\ ~learningModeState.showAnswer
              \/ AdvancePending(n, TRUE)
              \/ learnLog = [target |-> n, stale |-> TRUE]

\* A delayed advance has just fired on the deck it was scheduled for.
C25_Witness ==
    /\ learnLog.target > 0
    /\ ~learnLog.stale
    /\ learningModeState.currentCardIndex = learnLog.target
    /\ ~learningModeState.showAnswer
    /\ learnLog.target - 1 \in DOMAIN learningModeState.cardProgress

=============================================================================
